---- MODULE Spec2Model ----
(***************************************************************************)
(* State-machine model of the my_doa real-time DOA engine:                 *)
(*   - MultiTargetTracker (doa/tracker.py)                                 *)
(*   - STFTProcessor     (dsp/stft.py)                                     *)
(*   - DOAPipeline       (pipeline/doa_pipeline.py)                        *)
(*   - AudioStream       (audio/audio_io.py)                               *)
(*                                                                         *)
(* Numbers.  Azimuths are whole degrees; powers are thousandths; the       *)
(* confidence and hit-rate thresholds are percentages.  The Kalman filter  *)
(* runs in fixed point: angles are rounded to the nearest degree and the   *)
(* covariance P is stored as 4*P so that Q has integer entries for an      *)
(* integer dt.  Confidence is kept as an exact quotient together with a    *)
(* flag telling that the float64 evaluation of the source falls below the  *)
(* exact value (F64RoundsLow), so threshold comparisons agree with the     *)
(* floating point comparisons of the source.                               *)
(***************************************************************************)
EXTENDS Integers, Sequences, FiniteSets, TLC

VARIABLES
    \* ---- MultiTargetTracker ----
    cfg,            \* TrackerConfig
    tracks,         \* self.tracks: TrackState records in dict insertion order
    pending,        \* self.pending: list of PendingTrack
    next_id,        \* self.next_id
    nobj,           \* number of TrackState objects ever allocated (object identity)
    nsteps,         \* number of step() calls so far (frame_idx of the next call)
    issued,         \* history: ids given out by _create_track, in creation order
    promoted,       \* history: the pendings promoted by the last step
    removed,        \* history: the ids deleted by the last step
    retired,        \* history: the ids deleted before the last step
    lastDets,       \* history: detections passed to the last step
    lastAssoc,      \* history: the association made by the last step
    staticDet,      \* the detection of the static-source scenario
    \* ---- STFTProcessor ----
    frame_size,     \* self.frame_size
    hop_size,       \* self.hop_size
    _buffer,        \* self._buffer: number of buffered samples per channel, -1 for None
    _num_mics,      \* self._num_mics: 0 for None
    fed,            \* history: samples per channel accepted since construction or reset
    emitted,        \* history: frames emitted since construction or reset
    lastCall,       \* history: outcome of the last process_block call
    lastBlock,      \* history: shape of the last block and the channel count fixed before it
    \* ---- AudioStream ----
    channel_mapping,    \* TRUE when a channel mapping is configured
    _mailbox,           \* self._mailbox: serial of the block held, 0 for None
    _cb_buffer_capture, \* serial of the data in self._cb_buffer_capture (0: zeros)
    _cb_buffer,         \* serial of the data in self._cb_buffer (0: zeros)
    cb_pc,              \* position of the audio callback
    produced,           \* history: number of callbacks started
    written,            \* history: serial written by the last completed callback
    sinceRead,          \* history: callbacks completed since the previous read
    nreads,             \* history: number of get_latest_block calls
    lastRead,           \* history: value returned by the last get_latest_block
    delivered,          \* history: the blocks returned so far, in order
    arrays,             \* the ndarray objects: arrays[r] is the data in array r
    _mailbox_ref,       \* the array self._mailbox refers to, 0 for None
    delivered_refs,     \* history: the arrays returned by get_latest_block
    \* ---- DOAPipeline ----
    frame_index,            \* self.frame_index
    mcra,                   \* self.mcra
    mic_noise_estimates,    \* self.mic_noise_estimates: list of MCRA, <<>> for None
    P_smooth,               \* TRUE when self.P_smooth is not None
    _latest_snapshot,       \* self._latest_snapshot: <<>> for None, else <<snapshot>>
    _snapshot_frame_index,  \* self._snapshot_frame_index
    heap,                   \* the TrackState objects: object identity -> field values
    pc,                     \* position of the processing thread in process_block
    stft_frames,            \* frames of the current block still to be processed
    held,                   \* per consumer: the last get_latest_snapshot() result
    results,                \* the results list of the current or last process_block call
    epoch,                  \* history: number of reset() calls
    nframes,                \* history: frames processed over the whole run
    sinceReset,             \* history: frames processed since construction or reset()
    lastOp,                 \* history: the last operation of the processing thread
    preReset,               \* history: whether the last reset() found the constructed state
    \* doa/peak_extractor.py: PeakExtractor
    azimuth_grid_deg,       \* self.azimuth_grid_deg
    max_sources,            \* self.max_sources
    min_power,              \* self.min_power
    suppression_deg,        \* self.suppression_deg
    P_theta,                \* the map passed to extract()
    candidates,             \* the list extract() returned
    extract_pc,             \* "input" before the call, "returned" after it
    \* doa/srp_scan.py: SRPScanner
    tdoa_lut,               \* self.tdoa_lut: pair -> angle -> delay, in half samples
    gcc_maps,               \* the GCC arrays passed to compute_srp, per pair
    pair_weights,           \* the pair weights passed to compute_srp
    P_srp,                  \* the map compute_srp returned, in halves
    srp_pc,                 \* "input" before the call, "returned" after it
    \* utils/math_utils.py: the angle wraps
    wrap_x,                 \* the angle passed
    wrap_out,               \* the three results computed from it
    wrap_pc,                \* "input" before the calls, "returned" after them
    \* utils/doa_logger.py: DOALogger
    console,                \* self.console
    rotate_bytes,           \* self.rotate_bytes
    _lock,                  \* self._lock: 0 when free, else the thread holding it
    file_size,              \* size of the file at self.path
    file_records,           \* the record types written to the file at self.path
    log_pc,                 \* per thread: position in _write_json_line, or "idle"
    log_stack,              \* per thread: the records of its active _write_json_line calls
    rotations,              \* history: number of rotations made
    log_calls,              \* history: number of log_frame calls started
    \* dsp/mcra.py: one MCRA estimator with its arrays
    mc_window,              \* self.minima_window
    mc_S,                   \* self.S: <<>> for None
    mc_N_hat,               \* self.N_hat: <<>> for None
    mc_min_buffer,          \* self._min_buffer: rows of the minima ring, <<>> for None
    mc_min_index,           \* self._min_index
    mc_p_speech,            \* self._p_speech: <<>> for None
    mc_updates,             \* history: number of update() calls
    mc_resets,              \* history: number of reset() calls
    \* pipeline/doa_pipeline.py: _merge_candidates_near_tracks on its own
    mg_tracks,              \* self.tracker.tracks at the call
    mg_gate,                \* self.config.tracker.gate_deg
    mg_candidates,          \* the candidates passed
    mg_merged,              \* the list returned
    mg_pc                   \* "input" before the call, "returned" after it

trackerVars == <<cfg, tracks, pending, next_id, nobj, nsteps, issued, promoted, removed,
                 retired, lastDets, lastAssoc, staticDet>>

stftVars == <<frame_size, hop_size, _buffer, _num_mics, fed, emitted, lastCall,
              lastBlock>>

audioVars == <<channel_mapping, _mailbox, _cb_buffer_capture, _cb_buffer, cb_pc,
               produced, written, sinceRead, nreads, lastRead, delivered,
               arrays, _mailbox_ref, delivered_refs>>

pipeVars == <<frame_index, mcra, mic_noise_estimates, P_smooth, _latest_snapshot,
              _snapshot_frame_index, heap, pc, stft_frames, held, results, epoch,
              nframes, sinceReset, lastOp, preReset>>

peakVars == <<azimuth_grid_deg, max_sources, min_power, suppression_deg, P_theta,
              candidates, extract_pc>>

srpVars == <<tdoa_lut, gcc_maps, pair_weights, P_srp, srp_pc>>

wrapVars == <<wrap_x, wrap_out, wrap_pc>>

logVars == <<console, rotate_bytes, _lock, file_size, file_records, log_pc, log_stack,
             rotations, log_calls>>

mcraVars == <<mc_window, mc_S, mc_N_hat, mc_min_buffer, mc_min_index, mc_p_speech,
              mc_updates, mc_resets>>

mergeVars == <<mg_tracks, mg_gate, mg_candidates, mg_merged, mg_pc>>

vars == <<trackerVars, stftVars, audioVars, pipeVars, peakVars, srpVars, wrapVars,
          logVars, mcraVars, mergeVars>>

----------------------------------------------------------------------------
(* Bounds *)

MaxFrames == 5

MaxFrameSize == 4

MaxBlock == 5

MaxSamples == 9

MaxCallbacks == 4

MaxReads == 4

MaxPipeFrames == 3

MaxResets == 2

\* number of angles of the azimuth grid of the peak extractor
GridSize == 5

\* microphone pairs, delays per GCC array and angles of the SRP scan
NumPairs == 2

NDelays == 3

NumAngles == 2

\* bits of the significand of the floating-point model of the angle wraps
MantissaBits == 10

\* largest magnitude of an angle passed to the wraps, in sixteenths of a degree
MaxAngle == 12000

\* DOALogger: largest rotate_bytes, number of log_frame calls, logging threads
MaxRotateBytes == 4

MaxLogCalls == 3

NumThreads == 2

\* MCRA: number of bins, largest minima window, update() and reset() calls
NFreq == 2

MaxWindow == 3

MaxMcraUpdates == 5

MaxMcraResets == 1

\* candidate merging: longest candidate list, most tracks
MaxCands == 3

MaxMergeTracks == 2

----------------------------------------------------------------------------
(* utils/math_utils.py *)

Abs(x) == IF x < 0 THEN -x ELSE x

Min(a, b) == IF a <= b THEN a ELSE b

Max(a, b) == IF a >= b THEN a ELSE b

\* nearest integer to n/d for d > 0 (rounding of the fixed-point arithmetic)
RoundDiv(n, d) == (2 * n + d) \div (2 * d)

wrap_angle_deg(a) == ((a + 180) % 360) - 180

wrap_angle_deg_0_360(a) == a % 360

circular_distance_deg(a, b) == wrap_angle_deg(b - a)

----------------------------------------------------------------------------
(* Floating point.  <<kind, hits, age, misses>> for which the float64      *)
(* product hit_rate * recent_activity * age_factor of compute_confidence   *)
(* is smaller than the double nearest to its exact value, the exact value  *)
(* being a multiple of 0.05 (age <= 16, hits <= 2*age, misses <= 12).      *)
(* Outside this set float64 and exact comparison against a threshold that  *)
(* is a multiple of 0.05 agree; hits/age against such a threshold is       *)
(* always exact.                                                           *)

F64RoundsLow == {
    <<"pending",1,3,0>>, <<"pending",1,3,1>>, <<"pending",1,3,2>>, <<"pending",1,3,3>>,
    <<"pending",1,6,0>>, <<"pending",1,6,1>>, <<"pending",1,6,2>>, <<"pending",1,6,3>>,
    <<"pending",1,7,0>>, <<"pending",1,7,1>>, <<"pending",1,7,2>>, <<"pending",1,7,3>>,
    <<"pending",1,9,0>>, <<"pending",1,9,1>>, <<"pending",1,9,2>>, <<"pending",1,9,3>>,
    <<"pending",1,12,5>>, <<"pending",2,3,0>>, <<"pending",2,3,1>>, <<"pending",2,3,2>>,
    <<"pending",2,3,3>>, <<"pending",2,6,0>>, <<"pending",2,6,1>>, <<"pending",2,6,2>>,
    <<"pending",2,6,3>>, <<"pending",2,7,0>>, <<"pending",2,7,1>>, <<"pending",2,7,2>>,
    <<"pending",2,7,3>>, <<"pending",2,9,0>>, <<"pending",2,9,1>>, <<"pending",2,9,2>>,
    <<"pending",2,9,3>>, <<"pending",2,12,5>>, <<"pending",2,16,6>>, <<"pending",3,12,6>>,
    <<"pending",3,12,7>>, <<"pending",4,3,0>>, <<"pending",4,3,1>>, <<"pending",4,3,2>>,
    <<"pending",4,3,3>>, <<"pending",4,6,0>>, <<"pending",4,6,1>>, <<"pending",4,6,2>>,
    <<"pending",4,6,3>>, <<"pending",4,7,0>>, <<"pending",4,7,1>>, <<"pending",4,7,2>>,
    <<"pending",4,7,3>>, <<"pending",4,9,0>>, <<"pending",4,9,1>>, <<"pending",4,9,2>>,
    <<"pending",4,9,3>>, <<"pending",4,12,5>>, <<"pending",4,16,6>>, <<"pending",4,16,7>>,
    <<"pending",5,3,6>>, <<"pending",5,3,7>>, <<"pending",5,4,6>>, <<"pending",5,4,7>>,
    <<"pending",5,5,6>>, <<"pending",5,5,7>>, <<"pending",5,6,6>>, <<"pending",5,6,7>>,
    <<"pending",5,7,6>>, <<"pending",5,7,7>>, <<"pending",5,8,6>>, <<"pending",5,8,7>>,
    <<"pending",5,9,6>>, <<"pending",5,9,7>>, <<"pending",5,10,6>>, <<"pending",5,10,7>>,
    <<"pending",5,15,5>>, <<"pending",6,12,6>>, <<"pending",6,12,7>>, <<"pending",6,16,6>>,
    <<"pending",7,14,6>>, <<"pending",7,14,7>>, <<"pending",8,6,0>>, <<"pending",8,6,1>>,
    <<"pending",8,6,2>>, <<"pending",8,6,3>>, <<"pending",8,7,0>>, <<"pending",8,7,1>>,
    <<"pending",8,7,2>>, <<"pending",8,7,3>>, <<"pending",8,9,0>>, <<"pending",8,9,1>>,
    <<"pending",8,9,2>>, <<"pending",8,9,3>>, <<"pending",8,12,5>>, <<"pending",8,16,6>>,
    <<"pending",8,16,7>>, <<"pending",9,6,0>>, <<"pending",9,6,1>>, <<"pending",9,6,2>>,
    <<"pending",9,6,3>>, <<"pending",9,12,5>>, <<"pending",9,12,6>>, <<"pending",9,12,7>>,
    <<"pending",10,5,6>>, <<"pending",10,5,7>>, <<"pending",10,6,6>>, <<"pending",10,6,7>>,
    <<"pending",10,7,6>>, <<"pending",10,7,7>>, <<"pending",10,8,6>>, <<"pending",10,8,7>>,
    <<"pending",10,9,6>>, <<"pending",10,9,7>>, <<"pending",10,10,6>>, <<"pending",10,10,7>>,
    <<"pending",10,15,5>>, <<"pending",10,16,6>>, <<"pending",11,11,6>>, <<"pending",11,11,7>>,
    <<"pending",11,12,5>>, <<"pending",12,12,6>>, <<"pending",12,12,7>>, <<"pending",12,16,5>>,
    <<"pending",12,16,6>>, <<"pending",12,16,7>>, <<"pending",13,12,5>>, <<"pending",13,13,6>>,
    <<"pending",13,13,7>>, <<"pending",14,14,6>>, <<"pending",14,14,7>>, <<"pending",14,16,6>>,
    <<"pending",15,8,6>>, <<"pending",15,8,7>>, <<"pending",15,9,6>>, <<"pending",15,9,7>>,
    <<"pending",15,10,5>>, <<"pending",15,10,6>>, <<"pending",15,10,7>>, <<"pending",15,12,6>>,
    <<"pending",15,12,7>>, <<"pending",15,15,6>>, <<"pending",15,15,7>>, <<"pending",16,12,5>>,
    <<"pending",16,16,6>>, <<"pending",16,16,7>>, <<"pending",18,12,5>>, <<"pending",18,12,6>>,
    <<"pending",18,12,7>>, <<"pending",18,16,6>>, <<"pending",20,10,6>>, <<"pending",20,10,7>>,
    <<"pending",20,15,5>>, <<"pending",20,16,6>>, <<"pending",20,16,7>>, <<"pending",21,12,6>>,
    <<"pending",21,12,7>>, <<"pending",21,14,5>>, <<"pending",21,14,6>>, <<"pending",21,14,7>>,
    <<"pending",22,11,6>>, <<"pending",22,11,7>>, <<"pending",22,16,6>>, <<"pending",24,12,6>>,
    <<"pending",24,12,7>>, <<"pending",24,16,5>>, <<"pending",24,16,6>>, <<"pending",24,16,7>>,
    <<"pending",26,13,6>>, <<"pending",26,13,7>>, <<"pending",26,16,6>>, <<"pending",28,14,6>>,
    <<"pending",28,14,7>>, <<"pending",28,16,6>>, <<"pending",28,16,7>>, <<"pending",30,15,6>>,
    <<"pending",30,15,7>>, <<"pending",30,16,6>>, <<"pending",32,16,6>>, <<"pending",32,16,7>>,
    <<"track",1,3,0>>, <<"track",1,3,1>>, <<"track",1,3,2>>, <<"track",1,3,3>>, <<"track",1,3,4>>,
    <<"track",1,3,5>>, <<"track",1,6,0>>, <<"track",1,6,1>>, <<"track",1,6,2>>, <<"track",1,6,3>>,
    <<"track",1,6,4>>, <<"track",1,6,5>>, <<"track",1,7,0>>, <<"track",1,7,1>>, <<"track",1,7,2>>,
    <<"track",1,7,3>>, <<"track",1,7,4>>, <<"track",1,7,5>>, <<"track",1,9,0>>, <<"track",1,9,1>>,
    <<"track",1,9,2>>, <<"track",1,9,3>>, <<"track",1,9,4>>, <<"track",1,9,5>>, <<"track",2,3,0>>,
    <<"track",2,3,1>>, <<"track",2,3,2>>, <<"track",2,3,3>>, <<"track",2,3,4>>, <<"track",2,3,5>>,
    <<"track",2,6,0>>, <<"track",2,6,1>>, <<"track",2,6,2>>, <<"track",2,6,3>>, <<"track",2,6,4>>,
    <<"track",2,6,5>>, <<"track",2,7,0>>, <<"track",2,7,1>>, <<"track",2,7,2>>, <<"track",2,7,3>>,
    <<"track",2,7,4>>, <<"track",2,7,5>>, <<"track",2,9,0>>, <<"track",2,9,1>>, <<"track",2,9,2>>,
    <<"track",2,9,3>>, <<"track",2,9,4>>, <<"track",2,9,5>>, <<"track",4,3,0>>, <<"track",4,3,1>>,
    <<"track",4,3,2>>, <<"track",4,3,3>>, <<"track",4,3,4>>, <<"track",4,3,5>>, <<"track",4,6,0>>,
    <<"track",4,6,1>>, <<"track",4,6,2>>, <<"track",4,6,3>>, <<"track",4,6,4>>, <<"track",4,6,5>>,
    <<"track",4,7,0>>, <<"track",4,7,1>>, <<"track",4,7,2>>, <<"track",4,7,3>>, <<"track",4,7,4>>,
    <<"track",4,7,5>>, <<"track",4,9,0>>, <<"track",4,9,1>>, <<"track",4,9,2>>, <<"track",4,9,3>>,
    <<"track",4,9,4>>, <<"track",4,9,5>>, <<"track",8,6,0>>, <<"track",8,6,1>>, <<"track",8,6,2>>,
    <<"track",8,6,3>>, <<"track",8,6,4>>, <<"track",8,6,5>>, <<"track",8,7,0>>, <<"track",8,7,1>>,
    <<"track",8,7,2>>, <<"track",8,7,3>>, <<"track",8,7,4>>, <<"track",8,7,5>>, <<"track",8,9,0>>,
    <<"track",8,9,1>>, <<"track",8,9,2>>, <<"track",8,9,3>>, <<"track",8,9,4>>, <<"track",8,9,5>>,
    <<"track",9,6,0>>, <<"track",9,6,1>>, <<"track",9,6,2>>, <<"track",9,6,3>>, <<"track",9,6,4>>,
    <<"track",9,6,5>>, <<"track",11,6,3>>, <<"track",11,6,4>>, <<"track",11,6,5>>,
    <<"track",11,7,3>>, <<"track",11,7,4>>, <<"track",11,7,5>>, <<"track",16,9,3>>,
    <<"track",16,9,4>>, <<"track",16,9,5>>
    }

----------------------------------------------------------------------------
(* doa/tracker.py: configuration *)

\* TrackerConfig defaults; dt has no default and is set to one second per frame
DefaultConfig ==
    [dt |-> 1, process_noise |-> 5, measurement_noise |-> 5, gate_deg |-> 20,
     birth_frames |-> 3, death_frames |-> 10,
     pending_track_power_threshold |-> 30, pending_track_max_age |-> 8,
     min_confidence_for_promotion |-> 20, min_hit_rate_for_promotion |-> 40,
     min_confidence_to_keep |-> 10, low_confidence_frames_before_removal |-> 6]

\* a configuration with immediate birth, short death and no confidence pruning
FastConfig ==
    [DefaultConfig EXCEPT !.process_noise = 2, !.measurement_noise = 2,
        !.birth_frames = 1, !.death_frames = 1, !.pending_track_max_age = 2,
        !.min_confidence_for_promotion = 10, !.min_confidence_to_keep = 0]

\* a configuration with two-frame birth and quick confidence pruning
ShortConfig ==
    [DefaultConfig EXCEPT !.process_noise = 2, !.measurement_noise = 2,
        !.birth_frames = 2, !.death_frames = 2, !.pending_track_max_age = 3,
        !.min_confidence_for_promotion = 5, !.min_hit_rate_for_promotion = 60,
        !.low_confidence_frames_before_removal = 2]

Configs == {DefaultConfig, FastConfig, ShortConfig}

\* detections are (theta_deg, power) tuples
DetLists ==
    { <<>>,
      << <<0, 50>> >>, << <<0, 20>> >>, << <<26, 50>> >>, << <<26, 20>> >>,
      << <<0, 50>>, <<26, 50>> >>, << <<26, 50>>, <<0, 50>> >>,
      << <<350, 50>>, <<10, 50>> >>,
      << <<170, 50>> >>, << <<0, 50>>, <<170, 50>> >> }

----------------------------------------------------------------------------
(* doa/tracker.py: TrackState, PendingTrack *)

\* confidence as <<numerator, denominator, float64 rounds low>>, clipped to [0, 1]
TrackState_compute_confidence(t) ==
    IF t.age = 0 THEN <<0, 1, FALSE>>
    ELSE LET ra  == IF t.misses <= 2 THEN <<1, 1>>
                    ELSE IF t.misses <= 5 THEN <<1, 2>> ELSE <<1, 10>>
             num == t.hits * ra[1] * Min(t.age, 10)
             den == t.age * ra[2] * 10
         IN  <<Max(0, Min(num, den)), den,
               <<"track", t.hits, t.age, t.misses>> \in F64RoundsLow>>

PendingTrack_compute_confidence(p) ==
    IF p.age = 0 THEN <<0, 1, FALSE>>
    ELSE LET ra  == IF p.misses <= 3 THEN <<1, 1>>
                    ELSE <<Max(0, 5 - (p.misses - 3)), 5>>
             num == p.hits * ra[1] * Min(p.age, 10)
             den == p.age * ra[2] * 10
         IN  <<Max(0, Min(num, den)), den,
               <<"pending", p.hits, p.age, p.misses>> \in F64RoundsLow>>

\* a comparison that also counts a confidence equal to the threshold as below
ConfBelow_or_equal(c, pct) == c[1] * 100 <= pct * c[2]

\* confidence < pct/100 as the source's float comparison decides it
ConfBelow(c, pct) ==
    \/ c[1] * 100 < pct * c[2]
    \/ (c[1] * 100 = pct * c[2] /\ c[3])

NewPending(theta, power) ==
    [theta_deg |-> theta, power |-> power, age |-> 1, hits |-> 1, misses |-> 0]

----------------------------------------------------------------------------
(* doa/tracker.py: Kalman core *)

\* 4*Q
Q4(c) ==
    LET q == c.process_noise * c.process_noise
    IN  <<c.dt * c.dt * q, 2 * c.dt * q, 2 * c.dt * q, 4 * q>>

\* 4*R
R4(c) == 4 * c.measurement_noise * c.measurement_noise

PredictTrack(c, t) ==
    LET P  == t.P
        dt == c.dt
        Q  == Q4(c)
    IN  [t EXCEPT
            !.theta_deg = wrap_angle_deg(t.theta_deg + dt * t.theta_dot_deg_per_sec),
            !.P = << P[1] + dt * P[3] + dt * (P[2] + dt * P[4]) + Q[1],
                     P[2] + dt * P[4] + Q[2],
                     P[3] + dt * P[4] + Q[3],
                     P[4] + Q[4] >>]

_predict_all(c, trks) == [i \in DOMAIN trks |-> PredictTrack(c, trks[i])]

_kalman_update(c, t, theta_meas_deg) ==
    LET P  == t.P
        y  == circular_distance_deg(0, theta_meas_deg - t.theta_deg)
        S  == P[1] + R4(c)
        \* K = P H^T / S = <<P[1]/S, P[3]/S>>
    IN  [t EXCEPT
            !.theta_deg = wrap_angle_deg(t.theta_deg + RoundDiv(P[1] * y, S)),
            !.theta_dot_deg_per_sec = t.theta_dot_deg_per_sec + RoundDiv(P[3] * y, S),
            !.P = << RoundDiv((S - P[1]) * P[1], S),
                     RoundDiv((S - P[1]) * P[2], S),
                     P[3] - RoundDiv(P[3] * P[1], S),
                     P[4] - RoundDiv(P[3] * P[2], S) >>]

----------------------------------------------------------------------------
(* doa/tracker.py: association *)

\* a nearest-detection choice that keeps the last of equally near detections
BestDet_last_on_tie(theta, dets, used) ==
    LET cand    == {d \in 1..Len(dets) : d \notin used}
        dist(d) == Abs(circular_distance_deg(theta, dets[d][1]))
    IN  IF cand = {} THEN 0
        ELSE CHOOSE d \in cand :
                \A e \in cand : dist(d) < dist(e) \/ (dist(d) = dist(e) /\ d >= e)

\* the unused detection nearest to theta, lowest index on ties; 0 when none
BestDet(theta, dets, used) ==
    LET cand    == {d \in 1..Len(dets) : d \notin used}
        dist(d) == Abs(circular_distance_deg(theta, dets[d][1]))
    IN  IF cand = {} THEN 0
        ELSE CHOOSE d \in cand :
                \A e \in cand : dist(d) < dist(e) \/ (dist(d) = dist(e) /\ d <= e)

RECURSIVE AssocFrom(_, _, _, _, _, _)
AssocFrom(c, trks, dets, i, used, asg) ==
    IF i > Len(trks)
    THEN [assignments |-> asg,
          unassigned  |-> SelectSeq([d \in 1..Len(dets) |-> d], LAMBDA d : d \notin used)]
    ELSE LET best == BestDet(trks[i].theta_deg, dets, used)
             dist == Abs(circular_distance_deg(trks[i].theta_deg, dets[best][1]))
         IN  IF best # 0 /\ dist <= c.gate_deg
             THEN AssocFrom(c, trks, dets, i + 1, used \cup {best},
                            asg @@ (trks[i].id :> best))
             ELSE AssocFrom(c, trks, dets, i + 1, used, asg)

_associate_detections(c, trks, dets) ==
    IF Len(trks) = 0 \/ Len(dets) = 0
    THEN [assignments |-> <<>>, unassigned |-> [d \in 1..Len(dets) |-> d]]
    ELSE AssocFrom(c, trks, dets, 1, {}, <<>>)

----------------------------------------------------------------------------
(* doa/tracker.py: update and track management *)

\* an update that forgets to age the assigned track
_update_assigned_no_age(c, trks, asg, dets, frame_idx) ==
    [i \in DOMAIN trks |->
        IF trks[i].id \in DOMAIN asg
        THEN LET u == _kalman_update(c, trks[i], dets[asg[trks[i].id]][1])
             IN  [u EXCEPT !.hits = @ + 1, !.misses = 0,
                           !.last_update_frame = frame_idx]
        ELSE [trks[i] EXCEPT !.misses = @ + 1, !.age = @ + 1]]

\* an update that forgets to count the hit
_update_assigned_no_hit(c, trks, asg, dets, frame_idx) ==
    [i \in DOMAIN trks |->
        IF trks[i].id \in DOMAIN asg
        THEN LET u == _kalman_update(c, trks[i], dets[asg[trks[i].id]][1])
             IN  [u EXCEPT !.misses = 0, !.age = @ + 1,
                           !.last_update_frame = frame_idx]
        ELSE [trks[i] EXCEPT !.misses = @ + 1, !.age = @ + 1]]

_update_assigned(c, trks, asg, dets, frame_idx) ==
    [i \in DOMAIN trks |->
        IF trks[i].id \in DOMAIN asg
        THEN LET u == _kalman_update(c, trks[i], dets[asg[trks[i].id]][1])
             IN  [u EXCEPT !.hits = @ + 1, !.misses = 0, !.age = @ + 1,
                           !.last_update_frame = frame_idx]
        ELSE [trks[i] EXCEPT !.misses = @ + 1, !.age = @ + 1]]

\* index of the first pending within gate_deg of theta; 0 when none
FirstMatch(c, pend, theta) ==
    LET m == {i \in DOMAIN pend :
                Abs(circular_distance_deg(pend[i].theta_deg, theta)) <= c.gate_deg}
    IN  IF m = {} THEN 0 ELSE CHOOSE i \in m : \A j \in m : i <= j

\* a proximity check that uses the plain gate
TooCloseToExisting_gate(c, trks, theta) ==
    \E i \in DOMAIN trks :
        Abs(circular_distance_deg(trks[i].theta_deg, theta)) <= c.gate_deg

\* gate_deg * 1.5 proximity of a detection to an active track
TooCloseToExisting(c, trks, theta) ==
    \E i \in DOMAIN trks :
        2 * Abs(circular_distance_deg(trks[i].theta_deg, theta)) <= 3 * c.gate_deg

\* the loop over unassigned detections: <<pending, new_pending>>
RECURSIVE MatchDets(_, _, _, _, _, _, _)
MatchDets(c, trks, dets, unassigned, k, pend, new_pending) ==
    IF k > Len(unassigned) THEN <<pend, new_pending>>
    ELSE LET theta == dets[unassigned[k]][1]
             power == dets[unassigned[k]][2]
             m     == FirstMatch(c, pend, theta)
         IN  IF power < c.pending_track_power_threshold
             THEN MatchDets(c, trks, dets, unassigned, k + 1, pend, new_pending)
             ELSE IF m # 0
             THEN MatchDets(c, trks, dets, unassigned, k + 1,
                    [i \in DOMAIN pend |->
                        IF i = m THEN [pend[i] EXCEPT !.theta_deg = theta,
                                                      !.power = Max(@, power),
                                                      !.hits = @ + 1,
                                                      !.misses = 0]
                                 ELSE pend[i]],
                    new_pending)
             ELSE IF ~TooCloseToExisting(c, trks, theta)
             THEN MatchDets(c, trks, dets, unassigned, k + 1, pend,
                            Append(new_pending, NewPending(theta, power)))
             ELSE MatchDets(c, trks, dets, unassigned, k + 1, pend, new_pending)

\* a creation that does not advance next_id
_create_track_same_id(c, T, theta_deg) ==
    LET track == [id |-> T.next_id, obj |-> T.nobj + 1,
                  theta_deg |-> wrap_angle_deg(theta_deg),
                  theta_dot_deg_per_sec |-> 0,
                  P |-> <<4 * c.measurement_noise * c.measurement_noise, 0,
                          0, 4 * c.process_noise * c.process_noise>>,
                  age |-> 0, misses |-> 0, hits |-> 0,
                  last_update_frame |-> 0, low_confidence_frames |-> 0]
    IN  [T EXCEPT !.tracks = Append(@, track),
                  !.nobj = @ + 1]

_create_track(c, T, theta_deg) ==
    LET track == [id |-> T.next_id, obj |-> T.nobj + 1,
                  theta_deg |-> wrap_angle_deg(theta_deg),
                  theta_dot_deg_per_sec |-> 0,
                  P |-> <<4 * c.measurement_noise * c.measurement_noise, 0,
                          0, 4 * c.process_noise * c.process_noise>>,
                  age |-> 0, misses |-> 0, hits |-> 0,
                  last_update_frame |-> 0, low_confidence_frames |-> 0]
    IN  [T EXCEPT !.tracks = Append(@, track),
                  !.next_id = @ + 1,
                  !.nobj = @ + 1]

\* a promotion test that leaves out the hit rate
PromotionOk_confidence_only(c, p) ==
    ~ConfBelow(PendingTrack_compute_confidence(p), c.min_confidence_for_promotion)

PromotionOk(c, p) ==
    /\ ~ConfBelow(PendingTrack_compute_confidence(p), c.min_confidence_for_promotion)
    /\ IF p.age > 0 THEN p.hits * 100 >= c.min_hit_rate_for_promotion * p.age
                    ELSE 0 >= c.min_hit_rate_for_promotion

\* a promote-or-remove loop that keeps an old pending once it has reached
\* birth_frames and merely fails the promotion test
RECURSIVE PromoteFrom_keeps_old(_, _, _, _)
PromoteFrom_keeps_old(c, acc, all, k) ==
    IF k > Len(all) THEN acc
    ELSE LET p == all[k]
         IN  IF p.age >= c.birth_frames
             THEN IF PromotionOk(c, p)
                  THEN LET U == _create_track(c, acc, p.theta_deg)
                       IN  PromoteFrom_keeps_old(c,
                             [U EXCEPT !.promoted =
                                 Append(@, [id |-> U.tracks[Len(U.tracks)].id, pend |-> p])],
                             all, k + 1)
                  ELSE PromoteFrom_keeps_old(c, [acc EXCEPT !.pending = Append(@, p)],
                                             all, k + 1)
             ELSE IF p.age > c.pending_track_max_age
             THEN PromoteFrom_keeps_old(c, acc, all, k + 1)
             ELSE PromoteFrom_keeps_old(c, [acc EXCEPT !.pending = Append(@, p)],
                                        all, k + 1)

\* the promote-or-remove loop: T.pending collects the survivors
RECURSIVE PromoteFrom(_, _, _, _)
PromoteFrom(c, acc, all, k) ==
    IF k > Len(all) THEN acc
    ELSE LET p == all[k]
         IN  IF p.age >= c.birth_frames
             THEN IF PromotionOk(c, p)
                  THEN LET U == _create_track(c, acc, p.theta_deg)
                       IN  PromoteFrom(c,
                             [U EXCEPT !.promoted =
                                 Append(@, [id |-> U.tracks[Len(U.tracks)].id, pend |-> p])],
                             all, k + 1)
                  ELSE IF p.age <= c.pending_track_max_age
                  THEN PromoteFrom(c, [acc EXCEPT !.pending = Append(@, p)], all, k + 1)
                  ELSE PromoteFrom(c, acc, all, k + 1)
             ELSE IF p.age > c.pending_track_max_age
             THEN PromoteFrom(c, acc, all, k + 1)
             ELSE PromoteFrom(c, [acc EXCEPT !.pending = Append(@, p)], all, k + 1)

_update_pending(c, T, unassigned, dets) ==
    LET aged == [i \in DOMAIN T.pending |->
                    [T.pending[i] EXCEPT !.age = @ + 1, !.misses = @ + 1]]
        md   == MatchDets(c, T.tracks, dets, unassigned, 1, aged, <<>>)
    IN  PromoteFrom(c, [T EXCEPT !.pending = <<>>], md[1] \o md[2], 1)

\* a pruning decision that deletes on the first low-confidence frame
PruneTrack_eager(c, t) ==
    IF t.misses > c.death_frames THEN <<TRUE, t>>
    ELSE IF t.misses >= 10 /\ t.age > 15 THEN <<TRUE, t>>
    ELSE IF ConfBelow(TrackState_compute_confidence(t), c.min_confidence_to_keep)
    THEN <<TRUE, [t EXCEPT !.low_confidence_frames = @ + 1]>>
    ELSE <<FALSE, [t EXCEPT !.low_confidence_frames = 0]>>

\* the decision of _age_and_prune for one track: <<delete, track after the pass>>
PruneTrack(c, t) ==
    IF t.misses > c.death_frames THEN <<TRUE, t>>
    ELSE IF t.misses >= 10 /\ t.age > 15 THEN <<TRUE, t>>
    ELSE IF ConfBelow(TrackState_compute_confidence(t), c.min_confidence_to_keep)
    THEN LET u == [t EXCEPT !.low_confidence_frames = @ + 1]
             removal_threshold == IF t.misses >= 5 THEN 2
                                  ELSE c.low_confidence_frames_before_removal
         IN  <<u.low_confidence_frames >= removal_threshold, u>>
    ELSE <<FALSE, [t EXCEPT !.low_confidence_frames = 0]>>

_age_and_prune(c, T) ==
    LET res == [i \in DOMAIN T.tracks |-> PruneTrack(c, T.tracks[i])]
        idx == [i \in DOMAIN res |-> i]
    IN  [T EXCEPT
            !.tracks  = [i \in DOMAIN SelectSeq(idx, LAMBDA j : ~res[j][1]) |->
                            res[SelectSeq(idx, LAMBDA j : ~res[j][1])[i]][2]],
            !.deleted = [i \in DOMAIN SelectSeq(idx, LAMBDA j : res[j][1]) |->
                            res[SelectSeq(idx, LAMBDA j : res[j][1])[i]][2]]]

\* no step has been made: nothing was predicted, nothing assigned
NoAssoc == [predicted |-> <<>>, assignments |-> <<>>, unassigned |-> <<>>]

\* MultiTargetTracker.step on the tracker state T; the result also carries
\* the pendings promoted and the TrackState objects deleted by this step, and
\* the association it made (predicted azimuths, assignments, unassigned)
step(c, T, detections, frame_idx) ==
    LET T0  == [tracks |-> _predict_all(c, T.tracks), pending |-> T.pending,
                next_id |-> T.next_id, nobj |-> T.nobj,
                promoted |-> <<>>, deleted |-> <<>>, assoc |-> NoAssoc]
        as  == _associate_detections(c, T0.tracks, detections)
        T1  == [T0 EXCEPT !.tracks = _update_assigned(c, @, as.assignments,
                                                      detections, frame_idx),
                          !.assoc = [predicted |-> [i \in DOMAIN T0.tracks |->
                                                      [id |-> T0.tracks[i].id,
                                                       theta_deg |-> T0.tracks[i].theta_deg]],
                                     assignments |-> as.assignments,
                                     unassigned |-> as.unassigned]]
        T2  == _update_pending(c, T1, as.unassigned, detections)
    IN  _age_and_prune(c, T2)

TrackerState == [tracks |-> tracks, pending |-> pending, next_id |-> next_id, nobj |-> nobj]

----------------------------------------------------------------------------
(* Specification of the tracker alone: any configuration of Configs, any   *)
(* detection list of DetLists at every step.                               *)

\* the components a specification does not exercise stay as constructed
TrackerIdle ==
    /\ cfg = DefaultConfig
    /\ tracks = <<>>
    /\ pending = <<>>
    /\ next_id = 1
    /\ nobj = 0
    /\ nsteps = 0
    /\ issued = <<>>
    /\ promoted = <<>>
    /\ removed = <<>>
    /\ retired = {}
    /\ lastDets = <<>>
    /\ lastAssoc = NoAssoc
    /\ staticDet = <<>>

StftIdle ==
    /\ frame_size = 1
    /\ hop_size = 1
    /\ _buffer = -1
    /\ _num_mics = 0
    /\ fed = 0
    /\ emitted = 0
    /\ lastCall = "none"
    /\ lastBlock = <<>>

AudioIdle ==
    /\ channel_mapping = FALSE
    /\ _mailbox = 0
    /\ _cb_buffer_capture = 0
    /\ _cb_buffer = 0
    /\ cb_pc = "idle"
    /\ produced = 0
    /\ written = 0
    /\ sinceRead = 0
    /\ nreads = 0
    /\ lastRead = 0
    /\ delivered = <<>>
    /\ arrays = <<>>
    /\ _mailbox_ref = 0
    /\ delivered_refs = <<>>

Consumers == {1}

\* dsp/mcra.py: the estimator as constructed (no spectrum yet, ring index 0)
MCRA_new == [initialized |-> FALSE, _min_index |-> 0]

\* the pipeline state that the program holds (no history, no object identity)
View(fi, trks, pend, nid, buf, mics, m, mne, ps, snap, sfi) ==
    [frame_index |-> fi, tracks |-> trks, pending |-> pend, next_id |-> nid,
     _buffer |-> buf, _num_mics |-> mics, mcra |-> m, mic_noise_estimates |-> mne,
     P_smooth |-> ps, _latest_snapshot |-> snap, _snapshot_frame_index |-> sfi]

PeakIdle ==
    /\ azimuth_grid_deg = <<>>
    /\ max_sources = 0
    /\ min_power = 0
    /\ suppression_deg = 0
    /\ P_theta = <<>>
    /\ candidates = <<>>
    /\ extract_pc = "idle"

SrpIdle ==
    /\ tdoa_lut = <<>>
    /\ gcc_maps = <<>>
    /\ pair_weights = <<>>
    /\ P_srp = <<>>
    /\ srp_pc = "idle"

WrapIdle ==
    /\ wrap_x = 0
    /\ wrap_out = <<>>
    /\ wrap_pc = "idle"

LogIdle ==
    /\ console = FALSE
    /\ rotate_bytes = 0
    /\ _lock = 0
    /\ file_size = 0
    /\ file_records = <<>>
    /\ log_pc = <<>>
    /\ log_stack = <<>>
    /\ rotations = 0
    /\ log_calls = 0

McraIdle ==
    /\ mc_window = 0
    /\ mc_S = <<>>
    /\ mc_N_hat = <<>>
    /\ mc_min_buffer = <<>>
    /\ mc_min_index = 0
    /\ mc_p_speech = <<>>
    /\ mc_updates = 0
    /\ mc_resets = 0

MergeIdle ==
    /\ mg_tracks = <<>>
    /\ mg_gate = 0
    /\ mg_candidates = <<>>
    /\ mg_merged = <<>>
    /\ mg_pc = "idle"

\* the state DOAPipeline.__init__ leaves
FreshView == View(0, <<>>, <<>>, 1, -1, 0, MCRA_new, <<>>, FALSE, <<>>, -1)

PipeIdle ==
    /\ frame_index = 0
    /\ mcra = MCRA_new
    /\ mic_noise_estimates = <<>>
    /\ P_smooth = FALSE
    /\ _latest_snapshot = <<>>
    /\ _snapshot_frame_index = -1
    /\ heap = <<>>
    /\ pc = "idle"
    /\ stft_frames = 0
    /\ held = [c \in Consumers |-> <<>>]
    /\ results = <<>>
    /\ epoch = 0
    /\ nframes = 0
    /\ sinceReset = 0
    /\ lastOp = "init"
    /\ preReset = "none"

TrackerInit ==
    /\ StftIdle /\ AudioIdle /\ PipeIdle /\ PeakIdle /\ SrpIdle /\ WrapIdle
    /\ LogIdle /\ McraIdle /\ MergeIdle
    /\ cfg \in Configs
    /\ tracks = <<>>
    /\ pending = <<>>
    /\ next_id = 1
    /\ nobj = 0
    /\ nsteps = 0
    /\ issued = <<>>
    /\ promoted = <<>>
    /\ removed = <<>>
    /\ retired = {}
    /\ lastDets = <<>>
    /\ lastAssoc = NoAssoc
    /\ staticDet = <<>>

TrackerStep(dets) ==
    /\ nsteps < MaxFrames
    /\ LET r == step(cfg, TrackerState, dets, nsteps)
       IN  /\ tracks' = r.tracks
           /\ pending' = r.pending
           /\ next_id' = r.next_id
           /\ nobj' = r.nobj
           /\ issued' = issued \o [i \in DOMAIN r.promoted |-> r.promoted[i].id]
           /\ promoted' = r.promoted
           /\ removed' = [i \in DOMAIN r.deleted |-> r.deleted[i].id]
    /\ retired' = retired \cup {removed[i] : i \in DOMAIN removed}
    /\ lastDets' = dets
    /\ lastAssoc' = step(cfg, TrackerState, dets, nsteps).assoc
    /\ nsteps' = nsteps + 1
    /\ UNCHANGED <<cfg, staticDet, stftVars, audioVars, pipeVars, peakVars, srpVars, wrapVars, logVars,
                   mcraVars, mergeVars>>

TrackerNext == \E dets \in DetLists : TrackerStep(dets)

SpecTracker == TrackerInit /\ [][TrackerNext]_vars

----------------------------------------------------------------------------
(* Specification of the static-source scenario: the default configuration  *)
(* and the same single detection at every step.                            *)

MaxStatic == 14

StaticAngles == {0, 90, 179, 180, 270, 359, -45}

StaticPowers == {30, 50, 1000}

StaticInit ==
    /\ StftIdle /\ AudioIdle /\ PipeIdle /\ PeakIdle /\ SrpIdle /\ WrapIdle
    /\ LogIdle /\ McraIdle /\ MergeIdle
    /\ cfg = DefaultConfig
    /\ tracks = <<>>
    /\ pending = <<>>
    /\ next_id = 1
    /\ nobj = 0
    /\ nsteps = 0
    /\ issued = <<>>
    /\ promoted = <<>>
    /\ removed = <<>>
    /\ retired = {}
    /\ lastDets = <<>>
    /\ lastAssoc = NoAssoc
    /\ staticDet \in StaticAngles \X StaticPowers

StaticStep ==
    /\ nsteps < MaxStatic
    /\ LET r == step(cfg, TrackerState, <<staticDet>>, nsteps)
       IN  /\ tracks' = r.tracks
           /\ pending' = r.pending
           /\ next_id' = r.next_id
           /\ nobj' = r.nobj
           /\ issued' = issued \o [i \in DOMAIN r.promoted |-> r.promoted[i].id]
           /\ promoted' = r.promoted
           /\ removed' = [i \in DOMAIN r.deleted |-> r.deleted[i].id]
    /\ retired' = retired \cup {removed[i] : i \in DOMAIN removed}
    /\ lastDets' = <<staticDet>>
    /\ lastAssoc' = step(cfg, TrackerState, <<staticDet>>, nsteps).assoc
    /\ nsteps' = nsteps + 1
    /\ UNCHANGED <<cfg, staticDet, stftVars, audioVars, pipeVars, peakVars, srpVars, wrapVars, logVars,
                   mcraVars, mergeVars>>

StaticNext == StaticStep

SpecStatic == StaticInit /\ [][StaticNext]_vars

----------------------------------------------------------------------------
(* Specification of the intermittent-source scenario: the default          *)
(* configuration and one source that is detected or missing in each step.  *)

MaxIntermittent == 14

IntermittentDets == {<<0, 50>>, <<179, 30>>}

IntermittentInit ==
    /\ StftIdle /\ AudioIdle /\ PipeIdle /\ PeakIdle /\ SrpIdle /\ WrapIdle
    /\ LogIdle /\ McraIdle /\ MergeIdle
    /\ cfg = DefaultConfig
    /\ tracks = <<>>
    /\ pending = <<>>
    /\ next_id = 1
    /\ nobj = 0
    /\ nsteps = 0
    /\ issued = <<>>
    /\ promoted = <<>>
    /\ removed = <<>>
    /\ retired = {}
    /\ lastDets = <<>>
    /\ lastAssoc = NoAssoc
    /\ staticDet \in IntermittentDets

IntermittentStep(dets) ==
    /\ nsteps < MaxIntermittent
    /\ LET r == step(cfg, TrackerState, dets, nsteps)
       IN  /\ tracks' = r.tracks
           /\ pending' = r.pending
           /\ next_id' = r.next_id
           /\ nobj' = r.nobj
           /\ issued' = issued \o [i \in DOMAIN r.promoted |-> r.promoted[i].id]
           /\ promoted' = r.promoted
           /\ removed' = [i \in DOMAIN r.deleted |-> r.deleted[i].id]
           /\ lastAssoc' = r.assoc
    /\ retired' = retired \cup {removed[i] : i \in DOMAIN removed}
    /\ lastDets' = dets
    /\ nsteps' = nsteps + 1
    /\ UNCHANGED <<cfg, staticDet, stftVars, audioVars, pipeVars, peakVars, srpVars,
                   wrapVars, logVars, mcraVars, mergeVars>>

IntermittentNext == \E dets \in {<<>>, <<staticDet>>} : IntermittentStep(dets)

SpecIntermittent == IntermittentInit /\ [][IntermittentNext]_vars

----------------------------------------------------------------------------
(* Properties of the tracker *)

TrackIds == {tracks[i].id : i \in DOMAIN tracks}

\* C3: track ids are issued 1, 2, 3, ... in creation order; every new id is
\* greater than all ids issued before, and the id of a removed track is
\* never given to a later track.
C3_IdsIssuedInOrder ==
    /\ \A i \in DOMAIN issued : issued[i] = i
    /\ \A i \in DOMAIN promoted : promoted[i].id \notin retired
    /\ TrackIds \subseteq {issued[i] : i \in DOMAIN issued}
    /\ \A i, j \in DOMAIN tracks : tracks[i].id = tracks[j].id => i = j

\* a track is created in a step after an earlier track had been removed
C3_Witness ==
    /\ promoted # <<>>
    /\ retired # {}

\* C4: an active track is absent from the tracker no later than the step in
\* which its consecutive miss count reaches death_frames.
C4_DeathBound ==
    \A i \in DOMAIN tracks :
        (cfg.death_frames >= 1 /\ tracks[i].hits >= 1)
            => tracks[i].misses < cfg.death_frames

\* C5: after every step no pending track lies within 1.5 x gate_deg of an
\* active track.
C5_NoPendingNearActive ==
    \A i \in DOMAIN pending : \A j \in DOMAIN tracks :
        2 * Abs(circular_distance_deg(tracks[j].theta_deg, pending[i].theta_deg))
            > 3 * cfg.gate_deg

PromotedIds == {promoted[i].id : i \in DOMAIN promoted}

\* C5 (amended): a pending track created by a step lies farther than
\* 1.5 x gate_deg from every track that was active when it was created,
\* i.e. from every surviving track that the step did not promote itself.
C5_NewPendingFarFromActive ==
    \A i \in DOMAIN pending : \A j \in DOMAIN tracks :
        (pending[i].age = 1 /\ tracks[j].id \notin PromotedIds)
            => 2 * Abs(circular_distance_deg(tracks[j].theta_deg, pending[i].theta_deg))
                   > 3 * cfg.gate_deg

\* a step created a pending track while an older track was active
C5_Witness ==
    \E i \in DOMAIN pending : \E j \in DOMAIN tracks :
        pending[i].age = 1 /\ tracks[j].id \notin PromotedIds

\* C6: default configuration, one strong detection at a fixed azimuth at
\* every step: no track before birth_frames detections, then exactly the
\* track with id 1, never removed, and no second id.
C6_StaticSourceOneId ==
    /\ nsteps < cfg.birth_frames => (tracks = <<>> /\ issued = <<>>)
    /\ nsteps >= cfg.birth_frames =>
          /\ issued = <<1>>
          /\ Len(tracks) = 1
          /\ tracks[1].id = 1
          /\ retired = {} /\ removed = <<>>

\* the static source has been tracked up to the end of the run
C6_Witness ==
    /\ nsteps = MaxStatic
    /\ Len(tracks) = 1
    /\ tracks[1].hits = MaxStatic - cfg.birth_frames

\* C7: a track is created only by promoting a pending track that has, in
\* that step, age >= birth_frames, confidence >= min_confidence_for_promotion
\* and hits/age >= min_hit_rate_for_promotion.
C7_CreatedOnlyByPromotion ==
    [][/\ next_id' - next_id = Len(promoted')
       /\ {tracks'[i].id : i \in DOMAIN tracks'} \ TrackIds \subseteq
              {promoted'[i].id : i \in DOMAIN promoted'}
       /\ \A i \in DOMAIN promoted' :
              LET p == promoted'[i].pend
              IN  /\ p.age >= cfg.birth_frames
                  /\ ~ConfBelow(PendingTrack_compute_confidence(p),
                                cfg.min_confidence_for_promotion)
                  /\ p.hits * 100 >= cfg.min_hit_rate_for_promotion * p.age
      ]_vars

\* a step promoted a pending track that had missed a frame
C7_Witness ==
    \E i \in DOMAIN promoted : promoted[i].pend.hits < promoted[i].pend.age

\* C11: for every active track hits + misses <= age after every step, and
\* the age of a track that stays in the tracker never decreases.
C11_TrackCountersBounded ==
    /\ [](\A i \in DOMAIN tracks : tracks[i].hits + tracks[i].misses <= tracks[i].age)
    /\ [][\A i \in DOMAIN tracks : \A j \in DOMAIN tracks' :
              tracks[i].id = tracks'[j].id => tracks'[j].age >= tracks[i].age]_vars

\* a track has been assigned detections and has then missed one
C11_Witness ==
    \E i \in DOMAIN tracks :
        tracks[i].hits >= 1 /\ tracks[i].misses >= 1 /\ tracks[i].age >= 3

\* C12: for every pending track hits + misses <= age after every step, for
\* any list of detections, so that hits / age never exceeds 1.
C12_PendingCountersBounded ==
    \A i \in DOMAIN pending : pending[i].hits + pending[i].misses <= pending[i].age

----------------------------------------------------------------------------
(* dsp/stft.py: STFTProcessor *)

\* an extraction that takes at most one frame per call
ExtractFrames_once(fs, hop, len, frames) ==
    IF len >= fs THEN <<frames + 1, len - hop>> ELSE <<frames, len>>

\* an extraction loop that stops one frame early
RECURSIVE ExtractFrames_strict(_, _, _, _)
ExtractFrames_strict(fs, hop, len, frames) ==
    IF len > fs THEN ExtractFrames_strict(fs, hop, len - hop, frames + 1)
    ELSE <<frames, len>>

\* the frame extraction loop on a buffer of len samples: <<frames, samples left>>
RECURSIVE ExtractFrames(_, _, _, _)
ExtractFrames(fs, hop, len, frames) ==
    IF len >= fs THEN ExtractFrames(fs, hop, len - hop, frames + 1)
    ELSE <<frames, len>>

\* a process_block that appends the block before it looks at the channel count
STFT_process_block_appends_first(fs, hop, buf, mics, ndim, n_mics, n_samples) ==
    IF ndim # 2
    THEN [raised |-> TRUE, frames |-> 0, buffer |-> buf, num_mics |-> mics, took |-> 0]
    ELSE IF n_mics = 0 \/ n_samples = 0
    THEN [raised |-> FALSE, frames |-> 0, buffer |-> buf, num_mics |-> mics, took |-> 0]
    ELSE IF buf # -1 /\ n_mics # mics
    THEN [raised |-> TRUE, frames |-> 0, buffer |-> buf + n_samples, num_mics |-> mics,
          took |-> 0]
    ELSE LET len == IF buf = -1 THEN n_samples ELSE buf + n_samples
             ex  == ExtractFrames(fs, hop, len, 0)
         IN  [raised |-> FALSE, frames |-> ex[1], buffer |-> ex[2],
              num_mics |-> IF buf = -1 THEN n_mics ELSE mics, took |-> n_samples]

\* process_block on a block of shape (n_mics, n_samples); ndim is the number
\* of dimensions of the array passed.  The result tells whether the call
\* raised, the number of frames returned and the processor state afterwards.
STFT_process_block(fs, hop, buf, mics, ndim, n_mics, n_samples) ==
    IF ndim # 2
    THEN [raised |-> TRUE, frames |-> 0, buffer |-> buf, num_mics |-> mics, took |-> 0]
    ELSE IF n_mics = 0 \/ n_samples = 0
    THEN [raised |-> FALSE, frames |-> 0, buffer |-> buf, num_mics |-> mics, took |-> 0]
    ELSE IF buf # -1 /\ n_mics # mics
    THEN [raised |-> TRUE, frames |-> 0, buffer |-> buf, num_mics |-> mics, took |-> 0]
    ELSE LET len == IF buf = -1 THEN n_samples ELSE buf + n_samples
             ex  == ExtractFrames(fs, hop, len, 0)
         IN  [raised |-> FALSE, frames |-> ex[1], buffer |-> ex[2],
              num_mics |-> IF buf = -1 THEN n_mics ELSE mics, took |-> n_samples]

STFTInit ==
    /\ TrackerIdle /\ AudioIdle /\ PipeIdle /\ PeakIdle /\ SrpIdle /\ WrapIdle
    /\ LogIdle /\ McraIdle /\ MergeIdle
    /\ frame_size \in 1..MaxFrameSize
    /\ hop_size \in 1..frame_size
    /\ _buffer = -1
    /\ _num_mics = 0
    /\ fed = 0
    /\ emitted = 0
    /\ lastCall = "none"
    /\ lastBlock = <<>>

STFTBlock(ndim, n_mics, n_samples) ==
    /\ fed + n_samples <= MaxSamples
    /\ LET r == STFT_process_block(frame_size, hop_size, _buffer, _num_mics,
                                   ndim, n_mics, n_samples)
       IN  /\ _buffer' = r.buffer
           /\ _num_mics' = r.num_mics
           /\ fed' = fed + r.took
           /\ emitted' = emitted + r.frames
           /\ lastCall' = IF r.raised THEN "raised" ELSE "returned"
           /\ lastBlock' = [ndim |-> ndim, n_mics |-> n_mics, n_samples |-> n_samples,
                            fixed |-> IF _buffer = -1 THEN 0 ELSE _num_mics]
    /\ UNCHANGED <<frame_size, hop_size, trackerVars, audioVars, pipeVars, peakVars, srpVars, wrapVars,
                   logVars, mcraVars, mergeVars>>

STFTReset ==
    /\ _buffer' = -1
    /\ _num_mics' = 0
    /\ fed' = 0
    /\ emitted' = 0
    /\ lastCall' = "reset"
    /\ lastBlock' = <<>>
    /\ UNCHANGED <<frame_size, hop_size, trackerVars, audioVars, pipeVars, peakVars, srpVars, wrapVars,
                   logVars, mcraVars, mergeVars>>

STFTNext ==
    \/ \E ndim \in 1..3, n_mics \in 0..2, n_samples \in 0..MaxBlock :
            STFTBlock(ndim, n_mics, n_samples)
    \/ STFTReset

SpecSTFT == STFTInit /\ [][STFTNext]_vars

\* C15: process_block raises for every block whose channel count differs
\* from the count fixed by the first block accepted since construction or
\* reset().
C15_RaisesOnChannelMismatch ==
    (/\ lastCall \in {"raised", "returned"}
     /\ lastBlock.ndim = 2
     /\ lastBlock.fixed # 0
     /\ lastBlock.n_mics # lastBlock.fixed)
        => lastCall = "raised"

\* C9: the number of frames emitted for T accepted samples is 0 when
\* T < frame_size and floor((T - frame_size) / hop_size) + 1 otherwise,
\* whatever the chunking.
C9_FrameConservation ==
    emitted = IF fed < frame_size THEN 0
              ELSE (fed - frame_size) \div hop_size + 1

\* several frames came out of samples fed in more than one non-empty chunk,
\* the last call adding to a non-empty remainder
C9_Witness ==
    /\ emitted >= 3
    /\ hop_size < frame_size
    /\ _buffer > 0
    /\ fed = MaxSamples

----------------------------------------------------------------------------
(* audio/audio_io.py: AudioStream mailbox *)

\* the array allocated for self._cb_buffer_capture
_cb_buffer_capture_ref == 1

\* the array self._cb_buffer names: its own array with a channel mapping,
\* the capture array without one
_cb_buffer_ref == IF channel_mapping THEN 2 ELSE _cb_buffer_capture_ref

\* a[...] = v: write into array r in place
ArrayWrite(arrs, r, v) ==
    [i \in 1..Len(arrs) |-> IF i = r THEN v ELSE arrs[i]]

\* a store of the array itself, without a copy
ndarray_copy_shared(arrs, r) == [ref |-> r, arrays |-> arrs]

\* a.copy(): a new array with the data of array r
ndarray_copy(arrs, r) == [ref |-> Len(arrs) + 1, arrays |-> Append(arrs, arrs[r])]

AudioInit ==
    /\ TrackerIdle /\ StftIdle /\ PipeIdle /\ PeakIdle /\ SrpIdle /\ WrapIdle
    /\ LogIdle /\ McraIdle /\ MergeIdle
    /\ channel_mapping \in BOOLEAN
    /\ _mailbox = 0
    /\ _cb_buffer_capture = 0
    /\ _cb_buffer = 0
    /\ cb_pc = "idle"
    /\ produced = 0
    /\ written = 0
    /\ sinceRead = 0
    /\ nreads = 0
    /\ lastRead = 0
    /\ delivered = <<>>
    /\ arrays = IF channel_mapping THEN <<0, 0>> ELSE <<0>>
    /\ _mailbox_ref = 0
    /\ delivered_refs = <<>>

\* _callback, line 231: copy indata into the capture buffer; without a
\* channel mapping _cb_buffer is the same array as _cb_buffer_capture
CallbackCapture ==
    /\ cb_pc = "idle"
    /\ produced < MaxCallbacks
    /\ produced' = produced + 1
    /\ _cb_buffer_capture' = produced + 1
    /\ _cb_buffer' = IF channel_mapping THEN _cb_buffer ELSE produced + 1
    /\ arrays' = ArrayWrite(arrays, _cb_buffer_capture_ref, produced + 1)
    /\ cb_pc' = "captured"
    /\ UNCHANGED <<channel_mapping, _mailbox, written, sinceRead, nreads, lastRead,
                   delivered, _mailbox_ref, delivered_refs, trackerVars, stftVars, pipeVars, peakVars, srpVars,
                   wrapVars, logVars, mcraVars, mergeVars>>

\* _callback, lines 234-237: select the mapped channels
CallbackMap ==
    /\ cb_pc = "captured"
    /\ _cb_buffer' = IF channel_mapping THEN _cb_buffer_capture ELSE _cb_buffer
    /\ arrays' = IF channel_mapping
                  THEN ArrayWrite(arrays, _cb_buffer_ref, arrays[_cb_buffer_capture_ref])
                  ELSE arrays
    /\ cb_pc' = "mapped"
    /\ UNCHANGED <<channel_mapping, _mailbox, _cb_buffer_capture, produced, written,
                   sinceRead, nreads, lastRead, delivered, _mailbox_ref, delivered_refs,
                   trackerVars, stftVars, pipeVars,
                   peakVars, srpVars, wrapVars, logVars, mcraVars, mergeVars>>

\* _callback, lines 240-241: under the lock, the mailbox takes a copy
CallbackPublish ==
    /\ cb_pc = "mapped"
    /\ _mailbox' = _cb_buffer
    /\ LET c == ndarray_copy(arrays, _cb_buffer_ref)
       IN  /\ arrays' = c.arrays
           /\ _mailbox_ref' = c.ref
    /\ written' = produced
    /\ sinceRead' = sinceRead + 1
    /\ cb_pc' = "idle"
    /\ UNCHANGED <<channel_mapping, _cb_buffer_capture, _cb_buffer, produced,
                   nreads, lastRead, delivered, delivered_refs, trackerVars, stftVars, pipeVars,
                   peakVars, srpVars, wrapVars, logVars, mcraVars, mergeVars>>

\* a read that leaves the block in the mailbox
get_latest_block_keeps_mailbox ==
    /\ nreads < MaxReads
    /\ lastRead' = _mailbox
    /\ delivered' = IF _mailbox # 0 THEN Append(delivered, _mailbox) ELSE delivered
    /\ delivered_refs' = IF _mailbox_ref # 0 THEN Append(delivered_refs, _mailbox_ref) ELSE delivered_refs
    /\ nreads' = nreads + 1
    /\ sinceRead' = 0
    /\ UNCHANGED <<arrays, _mailbox_ref, channel_mapping, _mailbox, _cb_buffer_capture, _cb_buffer, cb_pc,
                   produced, written, trackerVars, stftVars, pipeVars, peakVars,
                   srpVars, wrapVars, logVars, mcraVars, mergeVars>>

\* get_latest_block: under the lock, take the block and clear the mailbox
get_latest_block ==
    /\ nreads < MaxReads
    /\ lastRead' = _mailbox
    /\ _mailbox' = 0
    /\ _mailbox_ref' = 0
    /\ delivered' = IF _mailbox # 0 THEN Append(delivered, _mailbox) ELSE delivered
    /\ delivered_refs' = IF _mailbox_ref # 0 THEN Append(delivered_refs, _mailbox_ref) ELSE delivered_refs
    /\ nreads' = nreads + 1
    /\ sinceRead' = 0
    /\ UNCHANGED <<arrays, channel_mapping, _cb_buffer_capture, _cb_buffer, cb_pc, produced,
                   written, trackerVars, stftVars, pipeVars, peakVars, srpVars,
                   wrapVars, logVars, mcraVars, mergeVars>>

AudioNext ==
    \/ CallbackCapture
    \/ CallbackMap
    \/ CallbackPublish
    \/ get_latest_block

SpecAudio == AudioInit /\ [][AudioNext]_vars

\* C2: a read returns the block of the most recent completed callback when
\* a callback completed since the previous read and None otherwise; blocks
\* are delivered at most once and in production order.
C2_MailboxLatestOnly ==
    [][/\ nreads' = nreads + 1 =>
            lastRead' = IF sinceRead > 0 THEN written ELSE 0
       /\ \A i, j \in DOMAIN delivered' : i < j => delivered'[i] < delivered'[j]
      ]_vars

\* a read returned the newer of two blocks written since the previous read,
\* after an earlier read had returned a block
C2_Witness ==
    /\ Len(delivered) >= 2
    /\ delivered[Len(delivered)] > delivered[Len(delivered) - 1] + 1
    /\ lastRead = delivered[Len(delivered)]

\* C30: the array in the mailbox and every array get_latest_block has
\* returned still hold the data they delivered_refs when the callback stored them,
\* whatever later callbacks wrote into their capture and output buffers,
\* and none of them is one of the callback's own buffers.
C30_BlocksNotOverwritten ==
    /\ _mailbox_ref # 0 =>
          /\ arrays[_mailbox_ref] = _mailbox
          /\ _mailbox_ref \notin {_cb_buffer_capture_ref, _cb_buffer_ref}
    /\ Len(delivered_refs) = Len(delivered)
    /\ \A i \in DOMAIN delivered_refs :
          /\ arrays[delivered_refs[i]] = delivered[i]
          /\ delivered_refs[i] \notin {_cb_buffer_capture_ref, _cb_buffer_ref}

\* without a channel mapping, a later callback has overwritten the capture
\* buffer while the processor holds an earlier block and a newer one waits
\* in the mailbox
C30_Witness ==
    /\ ~channel_mapping
    /\ Len(delivered_refs) >= 1
    /\ _mailbox_ref # 0
    /\ cb_pc = "mapped"
    /\ _cb_buffer > _mailbox
    /\ _mailbox > delivered[1]
    /\ arrays[_cb_buffer_ref] = _cb_buffer

----------------------------------------------------------------------------
(* doa/peak_extractor.py: PeakExtractor *)

\* a map entry that is NaN, +Inf or -Inf
NonFinite == 99

\* np.nan_to_num(P, nan=0.0, posinf=0.0, neginf=0.0)
nan_to_num(P) == [i \in DOMAIN P |-> IF P[i] = NonFinite THEN 0 ELSE P[i]]

\* np.argmax: the first index of the largest entry
argmax(work) ==
    CHOOSE i \in DOMAIN work :
        \A j \in DOMAIN work : work[i] > work[j] \/ (work[i] = work[j] /\ i <= j)

_suppress_neighborhood(grid, supp, P, idx_center) ==
    [i \in DOMAIN P |->
        IF Abs(circular_distance_deg(grid[idx_center], grid[i])) <= supp
        THEN 0 ELSE P[i]]

\* the extraction loop with slots left to fill
RECURSIVE ExtractLoop(_, _, _, _, _, _)
ExtractLoop(grid, minp, supp, work, slots, cands) ==
    IF slots = 0 THEN cands
    ELSE LET idx == argmax(work)
         IN  IF work[idx] < minp THEN cands
             ELSE ExtractLoop(grid, minp, supp,
                              _suppress_neighborhood(grid, supp, work, idx),
                              slots - 1,
                              Append(cands,
                                     [azimuth_deg |-> wrap_angle_deg_0_360(grid[idx]),
                                      power |-> work[idx], index |-> idx - 1]))

\* list.sort(key=power, reverse=True): stable, descending
RECURSIVE SortByPower(_)
SortByPower(cands) ==
    IF Len(cands) <= 1 THEN cands
    ELSE LET rest == SortByPower(Tail(cands))
             h    == Head(cands)
             n    == Cardinality({i \in DOMAIN rest : rest[i].power > h.power})
         IN  SubSeq(rest, 1, n) \o <<h>> \o SubSeq(rest, n + 1, Len(rest))

extract(grid, maxs, minp, supp, P) ==
    SortByPower(ExtractLoop(grid, minp, supp, nan_to_num(P), maxs, <<>>))

\* np.arange(0, 360, az_step) with GridSize angles
Grid == [i \in 1..GridSize |-> (i - 1) * (360 \div GridSize)]

PowerValues == {-1, 0, 1, NonFinite}

PeakInit ==
    /\ TrackerIdle /\ StftIdle /\ AudioIdle /\ PipeIdle /\ SrpIdle /\ WrapIdle
    /\ LogIdle /\ McraIdle /\ MergeIdle
    /\ azimuth_grid_deg = Grid
    /\ max_sources \in {1, 3}
    /\ min_power \in {0, 1}
    /\ suppression_deg \in {0, 360 \div GridSize, 100}
    /\ P_theta \in [1..GridSize -> PowerValues]
    /\ candidates = <<>>
    /\ extract_pc = "input"

PeakExtract ==
    /\ extract_pc = "input"
    /\ candidates' = extract(azimuth_grid_deg, max_sources, min_power,
                             suppression_deg, P_theta)
    /\ extract_pc' = "returned"
    /\ UNCHANGED <<azimuth_grid_deg, max_sources, min_power, suppression_deg, P_theta,
                   trackerVars, stftVars, audioVars, pipeVars, srpVars, wrapVars,
                   logVars, mcraVars, mergeVars>>

PeakNext == PeakExtract

SpecPeaks == PeakInit /\ [][PeakNext]_vars

\* C14: for every input map and every extractor configuration, no two
\* returned candidates have circular distance <= suppression_deg.
C14_PeakNMS ==
    \A i, j \in DOMAIN candidates :
        i # j => Abs(circular_distance_deg(candidates[i].azimuth_deg,
                                           candidates[j].azimuth_deg)) > suppression_deg

----------------------------------------------------------------------------
(* doa/srp_scan.py: SRPScanner.  Values are float32; NonFinite stands for  *)
(* NaN and the infinities, which every sum and product hands on.           *)

nf_add(a, b) == IF a = NonFinite \/ b = NonFinite THEN NonFinite ELSE a + b

nf_mul(a, b) == IF a = NonFinite \/ b = NonFinite THEN NonFinite ELSE a * b

clip(x, lo, hi) == IF x < lo THEN lo ELSE IF x > hi THEN hi ELSE x

\* the cleaning of compute_srp: decided on the array of the first pair only
CleanGcc(maps) ==
    IF \E t \in DOMAIN maps[1] : maps[1][t] = NonFinite
    THEN [p \in DOMAIN maps |-> nan_to_num(maps[p])]
    ELSE maps

\* linear_interp_1d at one position, given in half samples; result in halves
linear_interp_1d(x, pos2) ==
    LET N      == Len(x)
        pc2    == clip(pos2, 0, 2 * (N - 1))
        i0     == pc2 \div 2
        i1     == Min(i0 + 1, N - 1)
        frac2  == pc2 - 2 * i0
    IN  nf_add(nf_mul(2 - frac2, x[i0 + 1]), nf_mul(frac2, x[i1 + 1]))

\* the contribution of one pair to P at every angle, in halves
PairContribution(R, delays2) ==
    LET n_delays   == Len(R)
        center_idx == n_delays \div 2
    IN  IF \A a \in DOMAIN delays2 : delays2[a] % 2 = 0
        THEN [a \in DOMAIN delays2 |->
                nf_mul(2, R[clip(center_idx + delays2[a] \div 2, 0, n_delays - 1) + 1])]
        ELSE [a \in DOMAIN delays2 |->
                linear_interp_1d(R, 2 * center_idx + delays2[a])]

RECURSIVE Accumulate(_, _, _, _, _)
Accumulate(lut, maps, weights, k, P) ==
    IF k > Len(maps) THEN P
    ELSE LET contrib == PairContribution(maps[k], lut[k])
         IN  Accumulate(lut, maps, weights, k + 1,
                        [a \in DOMAIN P |-> nf_add(P[a], nf_mul(weights[k], contrib[a]))])

compute_srp(lut, maps, weights) ==
    Accumulate(lut, CleanGcc(maps), weights, 1, [a \in 1..Len(lut[1]) |-> 0])

\* lookup tables: whole-sample delays, and delays with half samples
Luts ==
    { [p \in 1..NumPairs |-> [a \in 1..NumAngles |-> 2 * ((p + a) % 3) - 2]],
      [p \in 1..NumPairs |-> [a \in 1..NumAngles |-> ((p + 2 * a) % 5) - 2]] }

GccValues == {0, 1, NonFinite}

SrpInit ==
    /\ TrackerIdle /\ StftIdle /\ AudioIdle /\ PipeIdle /\ PeakIdle /\ WrapIdle
    /\ LogIdle /\ McraIdle /\ MergeIdle
    /\ tdoa_lut \in Luts
    /\ gcc_maps \in [1..NumPairs -> [1..NDelays -> GccValues]]
    /\ pair_weights \in [1..NumPairs -> {1}] \cup {[p \in 1..NumPairs |-> p - 1]}
    /\ P_srp = <<>>
    /\ srp_pc = "input"

SrpCompute ==
    /\ srp_pc = "input"
    /\ P_srp' = compute_srp(tdoa_lut, gcc_maps, pair_weights)
    /\ gcc_maps' = CleanGcc(gcc_maps)
    /\ srp_pc' = "returned"
    /\ UNCHANGED <<tdoa_lut, pair_weights, trackerVars, stftVars, audioVars, pipeVars,
                   peakVars, wrapVars, logVars, mcraVars, mergeVars>>

SrpNext == SrpCompute

SpecSrp == SrpInit /\ [][SrpNext]_vars

\* C16: compute_srp returns a map whose values are all finite for every
\* input, also when the GCC array of any pair holds NaN or an infinity.
C16_SrpFinite ==
    srp_pc = "returned" => \A a \in DOMAIN P_srp : P_srp[a] # NonFinite

----------------------------------------------------------------------------
(* utils/math_utils.py: wrap_angle_deg and wrap_angle_deg_0_360 on floats. *)
(* A float is a whole number of sixteenths of a degree with a significand  *)
(* of MantissaBits bits; sums round to nearest, ties to even, as IEEE 754  *)
(* sums do, and the remainder is numpy's: fmod, then the divisor added     *)
(* when the signs differ.                                                  *)

Deg(d) == 16 * d

RECURSIVE Ulp(_, _)
Ulp(v, s) == IF v \div s < 2 ^ MantissaBits THEN s ELSE Ulp(v, 2 * s)

Representable(v) == Abs(v) % Ulp(Abs(v), 1) = 0

\* the float nearest to the real number v
fl_round(v) ==
    LET a    == Abs(v)
        ulp == Ulp(a, 1)
        q    == a \div ulp
        r    == a % ulp
        qr   == IF 2 * r < ulp THEN q
                ELSE IF 2 * r > ulp THEN q + 1
                ELSE q + (q % 2)
    IN  IF v < 0 THEN 0 - qr * ulp ELSE qr * ulp

\* C fmod: exact, with the sign of the dividend
fmod(a, b) == IF a < 0 THEN 0 - (Abs(a) % b) ELSE a % b

\* a % b of numpy for b > 0
fl_remainder(a, b) ==
    LET m == fmod(a, b)
    IN  IF m < 0 THEN fl_round(m + b) ELSE m

\* (a + 180.0) % 360.0 - 180.0
fl_wrap_angle_deg(a) ==
    fl_round(fl_remainder(fl_round(a + Deg(180)), Deg(360)) - Deg(180))

\* a % 360.0
fl_wrap_angle_deg_0_360(a) == fl_remainder(a, Deg(360))

WrapInit ==
    /\ TrackerIdle /\ StftIdle /\ AudioIdle /\ PipeIdle /\ PeakIdle /\ SrpIdle
    /\ LogIdle /\ McraIdle /\ MergeIdle
    /\ wrap_x \in {v \in (0 - MaxAngle)..MaxAngle : Representable(v)}
    /\ wrap_out = <<>>
    /\ wrap_pc = "input"

WrapCalls ==
    /\ wrap_pc = "input"
    /\ wrap_out' = [wrap_angle_deg |-> fl_wrap_angle_deg(wrap_x),
                    wrap_angle_deg_0_360 |-> fl_wrap_angle_deg_0_360(wrap_x),
                    wrap_0_360_of_wrap |->
                        fl_wrap_angle_deg_0_360(fl_wrap_angle_deg(wrap_x))]
    /\ wrap_pc' = "returned"
    /\ UNCHANGED <<wrap_x, trackerVars, stftVars, audioVars, pipeVars, peakVars,
                   srpVars, logVars, mcraVars, mergeVars>>

WrapNext == WrapCalls

SpecWrap == WrapInit /\ [][WrapNext]_vars

\* C17: for every angle x, wrap_angle_deg(x) lies in [-180, 180),
\* wrap_angle_deg_0_360(x) lies in [0, 360), and
\* wrap_angle_deg_0_360(wrap_angle_deg(x)) equals wrap_angle_deg_0_360(x).
C17_WrapIdentities ==
    wrap_pc = "returned" =>
        /\ Deg(-180) <= wrap_out.wrap_angle_deg
        /\ wrap_out.wrap_angle_deg < Deg(180)
        /\ 0 <= wrap_out.wrap_angle_deg_0_360
        /\ wrap_out.wrap_angle_deg_0_360 < Deg(360)
        /\ wrap_out.wrap_0_360_of_wrap = wrap_out.wrap_angle_deg_0_360

----------------------------------------------------------------------------
(* dsp/mcra.py: MCRA (the state that decides initialisation and the ring slot) *)

\* MCRAConfig.minima_window
minima_window == 15

MCRA_update(m) ==
    IF ~m.initialized THEN [m EXCEPT !.initialized = TRUE]
    ELSE [m EXCEPT !._min_index = (@ + 1) % minima_window]

\* a reset that forgets the ring position of the noise estimator
MCRA_reset_keeps_index(m) == [m EXCEPT !.initialized = FALSE]

MCRA_reset(m) == [initialized |-> FALSE, _min_index |-> 0]

----------------------------------------------------------------------------
(* pipeline/doa_pipeline.py: DOAPipeline *)

\* SSLConfig defaults
use_pair_weighting == TRUE

use_temporal_smoothing == TRUE

orientation_offset_deg == 0

\* the tracker configurations the pipeline is run with
PipeConfigs == {FastConfig, ShortConfig}

\* DOACandidate on the one-degree grid
Cand(az, pw) == [azimuth_deg |-> az, power |-> pw, index |-> az]

\* the candidate lists the peak extractor hands over, per frame
PipeCands ==
    { <<>>, <<Cand(0, 50)>>, <<Cand(0, 50), Cand(26, 40)>>,
      <<Cand(10, 60), Cand(350, 50)>> }

\* the blocks passed to process_block: <<ndim, n_mics, n_samples>>
PipeBlocks == { <<2, 2, 1>>, <<2, 2, 3>>, <<2, 2, 0>>, <<1, 2, 1>>, <<2, 3, 1>> }

\* position in trks of the track nearest to az, first one on ties; 0 without tracks
NearestTrack(trks, az) ==
    LET dist(i) == Abs(circular_distance_deg(az, wrap_angle_deg_0_360(trks[i].theta_deg)))
    IN  IF Len(trks) = 0 THEN 0
        ELSE CHOOSE i \in DOMAIN trks :
                \A j \in DOMAIN trks : dist(i) < dist(j) \/ (dist(i) = dist(j) /\ i <= j)

\* id of the track a candidate is grouped with; 0 when unassigned
GroupOf(c, trks, cand) ==
    LET i == NearestTrack(trks, cand.azimuth_deg)
    IN  IF i # 0 /\ Abs(circular_distance_deg(cand.azimuth_deg,
                          wrap_angle_deg_0_360(trks[i].theta_deg))) <= c.gate_deg
        THEN trks[i].id ELSE 0

\* the keys of track_groups in insertion order
RECURSIVE GroupOrder(_, _, _, _, _)
GroupOrder(c, trks, cands, k, order) ==
    IF k > Len(cands) THEN order
    ELSE LET g == GroupOf(c, trks, cands[k])
         IN  IF g = 0 \/ (\E i \in DOMAIN order : order[i] = g)
             THEN GroupOrder(c, trks, cands, k + 1, order)
             ELSE GroupOrder(c, trks, cands, k + 1, Append(order, g))

RECURSIVE SumOffsets(_, _)
SumOffsets(group, k) ==
    IF k > Len(group) THEN 0
    ELSE circular_distance_deg(group[1].azimuth_deg, group[k].azimuth_deg)
            + SumOffsets(group, k + 1)

RECURSIVE SumPower(_, _)
SumPower(group, k) ==
    IF k > Len(group) THEN 0 ELSE group[k].power + SumPower(group, k + 1)

\* a merge that keeps only the strongest member's power
MergeGroup_strongest_power(group) ==
    LET strongest == CHOOSE i \in DOMAIN group :
                        \A j \in DOMAIN group :
                            group[i].power > group[j].power
                            \/ (group[i].power = group[j].power /\ i <= j)
    IN  [azimuth_deg |-> wrap_angle_deg_0_360(group[1].azimuth_deg
                            + RoundDiv(SumOffsets(group, 1), Len(group))),
         power |-> group[strongest].power,
         index |-> group[strongest].index]

\* the merged candidate of a group of two or more: circular mean of the
\* angles, summed power, index of the first strongest member.  The mean
\* direction of two unit vectors is their bisector, which is what the mean
\* of the signed offsets gives; the groups of PipeCands have two members, and
\* for the larger groups of MergeCands the mean of the offsets stands in for
\* the direction of the vector sum.
MergeGroup(group) ==
    LET strongest == CHOOSE i \in DOMAIN group :
                        \A j \in DOMAIN group :
                            group[i].power > group[j].power
                            \/ (group[i].power = group[j].power /\ i <= j)
    IN  [azimuth_deg |-> wrap_angle_deg_0_360(group[1].azimuth_deg
                            + RoundDiv(SumOffsets(group, 1), Len(group))),
         power |-> SumPower(group, 1),
         index |-> group[strongest].index]

_merge_candidates_near_tracks(c, trks, cands) ==
    IF Len(cands) = 0 \/ Len(trks) = 0 THEN cands
    ELSE LET order  == GroupOrder(c, trks, cands, 1, <<>>)
             grp(g) == SelectSeq(cands, LAMBDA x : GroupOf(c, trks, x) = g)
             merged == [i \in DOMAIN order |->
                          IF Len(grp(order[i])) = 1 THEN grp(order[i])[1]
                          ELSE MergeGroup(grp(order[i]))]
         IN  merged \o grp(0)

\* the detections handed to the tracker
Detections(cands) ==
    [i \in DOMAIN cands |->
        <<wrap_angle_deg(cands[i].azimuth_deg + orientation_offset_deg), cands[i].power>>]

\* the fields of a TrackState a consumer reads
TrackFields(t) ==
    <<t.id, t.theta_deg, t.theta_dot_deg_per_sec, t.age, t.hits, t.misses>>

CurrentView ==
    View(frame_index, tracks, pending, next_id, _buffer, _num_mics, mcra,
         mic_noise_estimates, P_smooth, _latest_snapshot, _snapshot_frame_index)

PipeInit ==
    /\ AudioIdle /\ PipeIdle /\ PeakIdle /\ SrpIdle /\ WrapIdle
    /\ LogIdle /\ McraIdle /\ MergeIdle
    /\ cfg \in PipeConfigs
    /\ tracks = <<>>
    /\ pending = <<>>
    /\ next_id = 1
    /\ nobj = 0
    /\ nsteps = 0
    /\ issued = <<>>
    /\ promoted = <<>>
    /\ removed = <<>>
    /\ retired = {}
    /\ lastDets = <<>>
    /\ lastAssoc = NoAssoc
    /\ staticDet = <<>>
    /\ frame_size = 2
    /\ hop_size = 1
    /\ _buffer = -1
    /\ _num_mics = 0
    /\ fed = 0
    /\ emitted = 0
    /\ lastCall = "none"
    /\ lastBlock = <<>>

\* process_block, line 299: the STFT front end takes the block
process_block(ndim, n_mics, n_samples) ==
    /\ pc = "idle"
    /\ LET r == STFT_process_block(frame_size, hop_size, _buffer, _num_mics,
                                   ndim, n_mics, n_samples)
       IN  /\ nframes + r.frames <= MaxPipeFrames
           /\ _buffer' = r.buffer
           /\ _num_mics' = r.num_mics
           /\ fed' = fed + r.took
           /\ emitted' = emitted + r.frames
           /\ lastCall' = IF r.raised THEN "raised" ELSE "returned"
           /\ lastBlock' = [ndim |-> ndim, n_mics |-> n_mics, n_samples |-> n_samples,
                            fixed |-> IF _buffer = -1 THEN 0 ELSE _num_mics]
           /\ stft_frames' = r.frames
           /\ pc' = IF r.frames > 0 THEN "frame" ELSE "idle"
    /\ results' = <<>>
    /\ lastOp' = "process_block"
    /\ UNCHANGED <<frame_size, hop_size, trackerVars, audioVars, frame_index, mcra,
                   mic_noise_estimates, P_smooth, _latest_snapshot,
                   _snapshot_frame_index, heap, held, epoch, nframes,
                   sinceReset, preReset, peakVars, srpVars, wrapVars, logVars,
                   mcraVars, mergeVars>>

\* _process_stft_frame: noise estimation, candidates -> merge -> tracker step,
\* then the snapshot is stored under the lock
_process_stft_frame(cands) ==
    /\ pc = "frame"
    /\ mcra' = MCRA_update(mcra)
    /\ mic_noise_estimates' =
          IF use_pair_weighting
          THEN LET mne == IF mic_noise_estimates = <<>>
                          THEN [m \in 1.._num_mics |-> MCRA_new]
                          ELSE mic_noise_estimates
               IN  [m \in DOMAIN mne |-> MCRA_update(mne[m])]
          ELSE mic_noise_estimates
    /\ P_smooth' = (use_temporal_smoothing \/ P_smooth)
    /\ LET dets == Detections(_merge_candidates_near_tracks(cfg, tracks, cands))
           r    == step(cfg, TrackerState, dets, frame_index)
           refs == [i \in DOMAIN r.tracks |-> r.tracks[i].obj]
       IN  /\ tracks' = r.tracks
           /\ pending' = r.pending
           /\ next_id' = r.next_id
           /\ nobj' = r.nobj
           /\ issued' = issued \o [i \in DOMAIN r.promoted |-> r.promoted[i].id]
           /\ promoted' = r.promoted
           /\ removed' = [i \in DOMAIN r.deleted |-> r.deleted[i].id]
           /\ lastDets' = dets
           /\ lastAssoc' = r.assoc
           /\ heap' = [o \in 1..r.nobj |->
                         IF \E i \in DOMAIN r.tracks : r.tracks[i].obj = o
                         THEN r.tracks[CHOOSE i \in DOMAIN r.tracks : r.tracks[i].obj = o]
                         ELSE IF \E i \in DOMAIN r.deleted : r.deleted[i].obj = o
                         THEN r.deleted[CHOOSE i \in DOMAIN r.deleted : r.deleted[i].obj = o]
                         ELSE heap[o]]
           /\ _latest_snapshot' =
                 << [frame_index |-> frame_index, tracks |-> refs,
                     published |-> [i \in DOMAIN r.tracks |-> TrackFields(r.tracks[i])],
                     epoch |-> epoch] >>
    /\ _snapshot_frame_index' = frame_index
    /\ retired' = retired \cup {removed[i] : i \in DOMAIN removed}
    /\ nsteps' = nsteps + 1
    /\ nframes' = nframes + 1
    /\ sinceReset' = sinceReset + 1
    /\ pc' = "count"
    /\ lastOp' = "frame"
    /\ UNCHANGED <<cfg, staticDet, stftVars, audioVars, frame_index, stft_frames,
                   held, results, epoch, preReset, peakVars, srpVars, wrapVars,
                   logVars, mcraVars, mergeVars>>

\* a frame counter that does not advance
NextFrameIndex_stuck(fi) == fi

\* process_block, line 305: self.frame_index += 1
NextFrameIndex(fi) == fi + 1

\* process_block, lines 304-305: the result is appended, frame_index advances.
\* The result's 'tracks' is the list object that was stored in the snapshot.
process_block_count ==
    /\ pc = "count"
    /\ frame_index' = NextFrameIndex(frame_index)
    /\ stft_frames' = stft_frames - 1
    /\ pc' = IF stft_frames - 1 > 0 THEN "frame" ELSE "idle"
    /\ results' = Append(results,
                         [frame_index |-> frame_index,
                          tracks |-> _latest_snapshot[1].tracks,
                          published |-> _latest_snapshot[1].published])
    /\ lastOp' = "count"
    /\ UNCHANGED <<trackerVars, stftVars, audioVars, mcra, mic_noise_estimates,
                   P_smooth, _latest_snapshot, _snapshot_frame_index, heap, held,
                   epoch, nframes, sinceReset, preReset, peakVars, srpVars, wrapVars,
                   logVars, mcraVars, mergeVars>>

\* a reset() that leaves the published snapshot in place
reset_keeps_snapshot ==
    /\ pc = "idle"
    /\ epoch < MaxResets
    /\ _buffer' = -1
    /\ _num_mics' = 0
    /\ mcra' = MCRA_reset(mcra)
    /\ tracks' = <<>>
    /\ pending' = <<>>
    /\ next_id' = 1
    /\ frame_index' = 0
    /\ P_smooth' = FALSE
    /\ mic_noise_estimates' = <<>>
    /\ epoch' = epoch + 1
    /\ sinceReset' = 0
    /\ preReset' = IF CurrentView = FreshView THEN "fresh" ELSE "dirty"
    /\ lastOp' = "reset"
    /\ fed' = 0
    /\ emitted' = 0
    /\ lastCall' = "reset"
    /\ lastBlock' = <<>>
    /\ issued' = <<>>
    /\ promoted' = <<>>
    /\ removed' = <<>>
    /\ retired' = {}
    /\ lastDets' = <<>>
    /\ lastAssoc' = NoAssoc
    /\ UNCHANGED <<cfg, nobj, nsteps, staticDet, frame_size, hop_size, audioVars,
                   _latest_snapshot, _snapshot_frame_index, heap, pc, stft_frames,
                   held, results, nframes, peakVars, srpVars, wrapVars, logVars,
                   mcraVars, mergeVars>>

\* reset(), called between process_block calls
reset ==
    /\ pc = "idle"
    /\ epoch < MaxResets
    /\ _buffer' = -1
    /\ _num_mics' = 0
    /\ mcra' = MCRA_reset(mcra)
    /\ tracks' = <<>>
    /\ pending' = <<>>
    /\ next_id' = 1
    /\ frame_index' = 0
    /\ P_smooth' = FALSE
    /\ mic_noise_estimates' = <<>>
    /\ _latest_snapshot' = <<>>
    /\ _snapshot_frame_index' = -1
    /\ epoch' = epoch + 1
    /\ sinceReset' = 0
    /\ preReset' = IF CurrentView = FreshView THEN "fresh" ELSE "dirty"
    /\ lastOp' = "reset"
    /\ fed' = 0
    /\ emitted' = 0
    /\ lastCall' = "reset"
    /\ lastBlock' = <<>>
    /\ issued' = <<>>
    /\ promoted' = <<>>
    /\ removed' = <<>>
    /\ retired' = {}
    /\ lastDets' = <<>>
    /\ lastAssoc' = NoAssoc
    /\ UNCHANGED <<cfg, nobj, nsteps, staticDet, frame_size, hop_size, audioVars,
                   heap, pc, stft_frames, held, results, nframes, peakVars, srpVars,
                   wrapVars, logVars, mcraVars, mergeVars>>

\* get_latest_snapshot() on a consumer thread: under the lock, a new dict
\* with a copy of the tracks list
get_latest_snapshot(c) ==
    /\ held' = [d \in Consumers |->
                  IF d # c THEN held[d]
                  ELSE IF _latest_snapshot = <<>> THEN <<>>
                  ELSE << [frame_index |-> _latest_snapshot[1].frame_index,
                           tracks |-> [i \in DOMAIN _latest_snapshot[1].tracks |->
                                          _latest_snapshot[1].tracks[i]],
                           published |-> _latest_snapshot[1].published,
                           epoch |-> _latest_snapshot[1].epoch] >>]
    /\ UNCHANGED <<trackerVars, stftVars, audioVars, frame_index, mcra,
                   mic_noise_estimates, P_smooth, _latest_snapshot,
                   _snapshot_frame_index, heap, pc, stft_frames, results, epoch,
                   nframes, sinceReset, lastOp, preReset, peakVars, srpVars, wrapVars,
                   logVars, mcraVars, mergeVars>>

Next ==
    \/ \E b \in PipeBlocks : process_block(b[1], b[2], b[3])
    \/ \E cands \in PipeCands : _process_stft_frame(cands)
    \/ process_block_count
    \/ reset
    \/ \E c \in Consumers : get_latest_snapshot(c)

Init == PipeInit

Spec == Init /\ [][Next]_vars

----------------------------------------------------------------------------
(* Claims about the pipeline *)

\* C1: a snapshot returned by get_latest_snapshot() is an independent copy:
\* the track fields seen through it stay equal to the tracker state right
\* after the frame the snapshot names, whatever process_block does afterwards.
C1_SnapshotIndependent ==
    \A c \in Consumers :
        held[c] # <<>> =>
            \A i \in DOMAIN held[c][1].tracks :
                TrackFields(heap[held[c][1].tracks[i]]) = held[c][1].published[i]

\* C8: after reset() the pipeline state equals that of a freshly constructed
\* pipeline (frame_index 0, no tracks, no pendings, next id 1, empty STFT
\* buffer with unfixed channel count, uninitialised MCRA and per-mic MCRA, no
\* smoothed map, no snapshot), also when reset() follows reset().
C8_ResetEqualsFresh ==
    lastOp = "reset" => (CurrentView = FreshView /\ pc = "idle" /\ stft_frames = 0)

\* C8 witness: reset() was called on a pipeline that had processed frames,
\* held tracks and a snapshot, and again on the pipeline it left.
C8_Witness ==
    /\ lastOp = "reset"
    /\ preReset = "fresh"
    /\ epoch = 2
    /\ nframes >= 2
    /\ heap # <<>>

\* C10: between resets frames are numbered 0, 1, 2, ... in processing order:
\* each published snapshot carries the index after the previous one (0 for the
\* first), and a polling consumer never sees frame_index decrease.
C10_FrameIndexMonotonic ==
    [][ /\ nframes' # nframes =>
            /\ _latest_snapshot' # <<>>
            /\ _latest_snapshot'[1].frame_index =
                  IF _latest_snapshot = <<>> THEN 0
                  ELSE _latest_snapshot[1].frame_index + 1
        /\ \A c \in Consumers :
              (held[c] # <<>> /\ held'[c] # <<>>
                 /\ held[c][1].epoch = held'[c][1].epoch)
              => held'[c][1].frame_index >= held[c][1].frame_index ]_vars

\* C10 witness: a consumer holds the snapshot of the third frame of a run.
C10_Witness ==
    \E c \in Consumers :
        /\ held[c] # <<>>
        /\ held[c][1].frame_index = 2
        /\ _latest_snapshot # <<>>
        /\ _latest_snapshot[1].frame_index = 2

\* C13: get_latest_snapshot() returns None exactly when no frame has been
\* processed since construction or the last reset(); otherwise it returns the
\* snapshot of the most recently completed frame, whose frame_index is
\* frame_index - 1 whenever process_block is not executing.
C13_SnapshotAccessor ==
    /\ [](/\ (_latest_snapshot = <<>>) <=> (sinceReset = 0)
          /\ _latest_snapshot # <<>> =>
                /\ _latest_snapshot[1].frame_index = sinceReset - 1
                /\ _latest_snapshot[1].epoch = epoch
                /\ pc = "idle" => _latest_snapshot[1].frame_index = frame_index - 1)
    /\ [][\A c \in Consumers :
              held'[c] # held[c] =>
                 IF _latest_snapshot = <<>> THEN held'[c] = <<>>
                 ELSE /\ held'[c] # <<>>
                      /\ held'[c][1].frame_index = _latest_snapshot[1].frame_index
                      /\ held'[c][1].tracks = _latest_snapshot[1].tracks
                      /\ held'[c][1].epoch = _latest_snapshot[1].epoch]_vars

\* C13 witness: after a reset() that followed processed frames, frames were
\* processed again and a consumer got the snapshot of the last of them
C13_Witness ==
    /\ epoch >= 1
    /\ pc = "idle"
    /\ nframes > sinceReset
    /\ \E c \in Consumers :
          /\ held[c] # <<>>
          /\ held[c][1].epoch = epoch
          /\ held[c][1].frame_index = frame_index - 1

\* C18: each per-frame result returned by process_block carries in 'tracks'
\* the track states as they were right after that frame's tracker step, also
\* when the block produces several frames: later frames do not change it.
C18_ResultsKeepFrameState ==
    \A k \in DOMAIN results :
        \A i \in DOMAIN results[k].tracks :
            TrackFields(heap[results[k].tracks[i]]) = results[k].published[i]

\* C19: a new track is spawned only for a candidate that was detected in
\* birth_frames consecutive frames. A pending counts at least one hit for
\* every frame in which its candidate was detected, so a promoted pending
\* whose candidate was detected in birth_frames consecutive frames has
\* hits >= birth_frames.
C19_BornAfterConsecutiveDetections ==
    \A i \in DOMAIN promoted : promoted[i].pend.hits >= cfg.birth_frames

\* C20: a pending track is never promoted to a new track while an existing
\* active track lies within 1.5 x gate_deg of the pending's azimuth: every
\* track created by a step is farther than that from every track that was
\* created before it (ids are issued in creation order) and is still held
\* after the step.
C20_NoPromotionNearActive ==
    \A i \in DOMAIN promoted :
        \A j \in DOMAIN tracks :
            tracks[j].id < promoted[i].id =>
                2 * Abs(circular_distance_deg(tracks[j].theta_deg,
                                              promoted[i].pend.theta_deg))
                    > 3 * cfg.gate_deg

\* C21: in each tracker step the association gives each track at most one
\* detection and each detection to at most one track, every assigned pair
\* is within gate_deg, and the tracks choose in insertion (ascending id)
\* order, each taking its nearest detection not taken by an earlier track,
\* the lowest detection index on equal distance; a track whose nearest free
\* detection is beyond the gate gets none.
C21_GatedNearestNeighbour ==
    LET A == lastAssoc.assignments
        P == lastAssoc.predicted
        D == lastDets
        dist(i, d) == Abs(circular_distance_deg(P[i].theta_deg, D[d][1]))
        free(i) == {d \in 1..Len(D) :
                      \A j \in 1..(i - 1) : P[j].id \in DOMAIN A => A[P[j].id] # d}
    IN  /\ DOMAIN A \subseteq {P[i].id : i \in DOMAIN P}
        /\ \A i, j \in DOMAIN P : i < j => P[i].id < P[j].id
        /\ \A a, b \in DOMAIN A : a # b => A[a] # A[b]
        /\ \A i \in DOMAIN P :
              IF P[i].id \in DOMAIN A
              THEN LET d == A[P[i].id]
                   IN  /\ d \in free(i)
                       /\ dist(i, d) <= cfg.gate_deg
                       /\ \A e \in free(i) :
                             dist(i, d) < dist(i, e) \/ (dist(i, d) = dist(i, e) /\ d <= e)
              ELSE \A e \in free(i) : dist(i, e) > cfg.gate_deg

\* a step in which a track took the first of two equally near detections
\* while another track was left without a detection inside its gate
C21_Witness ==
    LET A == lastAssoc.assignments
        P == lastAssoc.predicted
    IN  /\ \E i \in DOMAIN P :
              /\ P[i].id \in DOMAIN A
              /\ \E e \in 1..Len(lastDets) :
                    /\ e # A[P[i].id]
                    /\ Abs(circular_distance_deg(P[i].theta_deg, lastDets[e][1]))
                         = Abs(circular_distance_deg(P[i].theta_deg,
                                                     lastDets[A[P[i].id]][1]))
        /\ \E i \in DOMAIN P : P[i].id \notin DOMAIN A

\* C22: after every tracker step every surviving pending track has
\* age <= pending_track_max_age (a pending is created with age 1 and ages by
\* one per step, so it is promoted or discarded within pending_track_max_age
\* steps of its creation).
C22_PendingAgeBounded ==
    \A i \in DOMAIN pending : pending[i].age <= cfg.pending_track_max_age

\* a pending that has reached birth_frames without being promoted is at its
\* age limit: the next step promotes or discards it
C22_Witness ==
    \E i \in DOMAIN pending :
        /\ pending[i].age = cfg.pending_track_max_age
        /\ pending[i].age >= cfg.birth_frames
        /\ pending[i].misses > 0

----------------------------------------------------------------------------
(* utils/doa_logger.py: DOALogger.  Each thread runs log_frame, which      *)
(* calls _write_json_line; _write_json_line takes self._lock, writes the   *)
(* line and calls _rotate_if_needed while holding the lock; a rotation     *)
(* calls _write_metadata_record, which calls _write_json_line again.       *)
(* log_stack[t] holds the records of the _write_json_line calls thread t   *)
(* is in, innermost last; log_pc[t] is the position of the innermost call. *)
(* Sizes are in units of one metadata line.                                *)

Threads == 1..NumThreads

\* the length of the JSON line of a metadata record
MetaLine == 1

\* the lengths of the JSON lines of frame records
FrameLines == {1, 2}

LogInit ==
    /\ TrackerIdle /\ StftIdle /\ AudioIdle /\ PipeIdle /\ PeakIdle /\ SrpIdle
    /\ WrapIdle /\ McraIdle /\ MergeIdle
    /\ console \in BOOLEAN
    /\ rotate_bytes \in (MetaLine + 1)..MaxRotateBytes
    /\ _lock = 0
    /\ file_size = IF console THEN 0 ELSE MetaLine
    /\ file_records = IF console THEN <<>> ELSE <<"metadata">>
    /\ log_pc = [t \in Threads |-> "idle"]
    /\ log_stack = [t \in Threads |-> <<>>]
    /\ rotations = 0
    /\ log_calls = 0

\* log_frame, lines 136-147: the record is built and _write_json_line called
log_frame(t, size) ==
    /\ log_pc[t] = "idle"
    /\ log_calls < MaxLogCalls
    /\ log_calls' = log_calls + 1
    /\ log_stack' = [u \in Threads |->
                        IF u = t THEN <<[type |-> "frame", size |-> size]>>
                                 ELSE log_stack[u]]
    /\ log_pc' = [u \in Threads |-> IF u = t THEN "lock" ELSE log_pc[u]]
    /\ UNCHANGED <<console, rotate_bytes, _lock, file_size, file_records, rotations,
                   trackerVars, stftVars, audioVars, pipeVars, peakVars, srpVars,
                   wrapVars, mcraVars, mergeVars>>

\* _write_json_line, line 155: "with self._lock" on a threading.Lock, which
\* is not reentrant: the thread waits until the lock is free
lock_acquire(t) ==
    /\ log_pc[t] = "lock"
    /\ _lock = 0
    /\ _lock' = t
    /\ log_pc' = [u \in Threads |-> IF u = t THEN "write" ELSE log_pc[u]]
    /\ UNCHANGED <<console, rotate_bytes, file_size, file_records, log_stack,
                   rotations, log_calls, trackerVars, stftVars, audioVars, pipeVars,
                   peakVars, srpVars, wrapVars, mcraVars, mergeVars>>

\* _write_json_line, lines 156-163: print, or write and flush
write_line(t) ==
    /\ log_pc[t] = "write"
    /\ LET rec == log_stack[t][Len(log_stack[t])]
       IN  IF console
           THEN /\ UNCHANGED <<file_size, file_records, mcraVars, mergeVars>>
                /\ log_pc' = [u \in Threads |-> IF u = t THEN "unlock" ELSE log_pc[u]]
           ELSE /\ file_size' = file_size + rec.size
                /\ file_records' = Append(file_records, rec.type)
                /\ log_pc' = [u \in Threads |-> IF u = t THEN "rotate" ELSE log_pc[u]]
    /\ UNCHANGED <<console, rotate_bytes, _lock, log_stack, rotations, log_calls,
                   trackerVars, stftVars, audioVars, pipeVars, peakVars, srpVars,
                   wrapVars, mcraVars, mergeVars>>

\* _rotate_if_needed, lines 93-112, called at line 165 inside the with block:
\* below rotate_bytes it returns; else the file is closed, renamed, reopened
\* empty and _write_metadata_record calls _write_json_line
_rotate_if_needed(t) ==
    /\ log_pc[t] = "rotate"
    /\ IF console \/ file_size < rotate_bytes
       THEN /\ log_pc' = [u \in Threads |-> IF u = t THEN "unlock" ELSE log_pc[u]]
            /\ UNCHANGED <<file_size, file_records, log_stack, rotations, mcraVars, mergeVars>>
       ELSE /\ file_size' = 0
            /\ file_records' = <<>>
            /\ rotations' = rotations + 1
            /\ log_stack' = [u \in Threads |->
                                IF u = t
                                THEN Append(log_stack[t],
                                            [type |-> "metadata", size |-> MetaLine])
                                ELSE log_stack[u]]
            /\ log_pc' = [u \in Threads |-> IF u = t THEN "lock" ELSE log_pc[u]]
    /\ UNCHANGED <<console, rotate_bytes, _lock, log_calls, trackerVars, stftVars,
                   audioVars, pipeVars, peakVars, srpVars, wrapVars, mcraVars,
                   mergeVars>>

\* the end of the with block of _write_json_line: the lock is released and
\* the call returns, to log_frame's caller or into the rotation that made it,
\* which then leaves its own with block
lock_release(t) ==
    /\ log_pc[t] = "unlock"
    /\ _lock' = 0
    /\ log_stack' = [u \in Threads |->
                        IF u = t THEN SubSeq(log_stack[t], 1, Len(log_stack[t]) - 1)
                                 ELSE log_stack[u]]
    /\ log_pc' = [u \in Threads |->
                    IF u = t THEN (IF Len(log_stack[t]) > 1 THEN "unlock" ELSE "idle")
                             ELSE log_pc[u]]
    /\ UNCHANGED <<console, rotate_bytes, file_size, file_records, rotations,
                   log_calls, trackerVars, stftVars, audioVars, pipeVars, peakVars,
                   srpVars, wrapVars, mcraVars, mergeVars>>

\* the steps of a thread inside log_frame
LogThread(t) ==
    lock_acquire(t) \/ write_line(t) \/ _rotate_if_needed(t) \/ lock_release(t)

LogNext ==
    \E t \in Threads :
        \/ \E size \in FrameLines : log_frame(t, size)
        \/ LogThread(t)

SpecLogger == LogInit /\ [][LogNext]_vars

\* every thread inside log_frame keeps running, and a thread waiting for
\* the lock gets it when the lock is free again and again
SpecLoggerFair == SpecLogger /\ \A t \in Threads : SF_vars(LogThread(t))

\* C23: when a write makes the log file reach rotate_bytes the logger
\* rotates the file, writes a metadata record into the new file and
\* log_frame returns; every log_frame call returns, also with several
\* threads logging: a thread inside log_frame eventually leaves it, and
\* whenever no thread is inside, the file starts with a metadata record.
C23_LogFrameReturns ==
    /\ \A t \in Threads : (log_pc[t] # "idle") ~> (log_pc[t] = "idle")
    /\ []((~console /\ \A t \in Threads : log_pc[t] = "idle") =>
              (file_records # <<>> /\ file_records[1] = "metadata"))

----------------------------------------------------------------------------
(* dsp/mcra.py: MCRA with its arrays.  Spectra have NFreq bins; values are *)
(* thousandths, products are rounded to the nearest thousandth.  The       *)
(* estimator is built with alpha_s = 0.85, delta = 1.5, alpha_d = 0.1 (the *)
(* defaults) and eps_floor = 0.001.                                        *)

Bins == 1..NFreq

\* eps_floor, in thousandths
eps_floor == 1

\* the power spectra passed to update()
McraSpectra ==
    {[b \in Bins |-> 0], [b \in Bins |-> 1000]}
        \cup {[b \in Bins |-> IF b = k THEN 8000 ELSE 1000] : k \in Bins}
        \cup {[b \in Bins |-> IF b = 1 THEN NonFinite ELSE -1000]}

\* update, lines 116-117: negative and non-finite inputs become 0
McraSanitize(x) == IF x = NonFinite \/ x < 0 THEN 0 ELSE x

\* update, lines 137-141: p / (p + 1) for p = max(P / (N_hat + eps) - 1, 0)
SpeechSignal(P, N) ==
    LET R  == RoundDiv(P * 1000, N + eps_floor)
        p0 == Max(R - 1000, 0)
    IN  1000 - RoundDiv(1000 * 1000, p0 + 1000)

McraInit ==
    /\ TrackerIdle /\ StftIdle /\ AudioIdle /\ PipeIdle /\ PeakIdle /\ SrpIdle
    /\ WrapIdle /\ LogIdle /\ MergeIdle
    /\ mc_window \in 1..MaxWindow
    /\ mc_S = <<>>
    /\ mc_N_hat = <<>>
    /\ mc_min_buffer = <<>>
    /\ mc_min_index = 0
    /\ mc_p_speech = <<>>
    /\ mc_updates = 0
    /\ mc_resets = 0

\* a minima update that writes the whole row, speech or not
MinimaRow_unmasked(row, S, p_speech) == S

\* update, lines 151-155: S is copied into the row where _p_speech < 0.5
MinimaRow(row, S, p_speech) ==
    [k \in Bins |-> IF p_speech[k] < 500 THEN S[k] ELSE row[k]]

\* MCRA.update, lines 111-171
McraUpdate(spectrum) ==
    /\ mc_updates < MaxMcraUpdates
    /\ mc_updates' = mc_updates + 1
    /\ LET P == [k \in Bins |-> McraSanitize(spectrum[k])]
       IN  IF mc_S = <<>>
           THEN /\ mc_S' = P
                /\ mc_N_hat' = [k \in Bins |-> Max(RoundDiv(15 * P[k], 10), eps_floor)]
                /\ mc_min_buffer' = [r \in 1..mc_window |-> P]
                /\ mc_p_speech' = [k \in Bins |-> 0]
                /\ UNCHANGED mc_min_index
           ELSE LET S  == [k \in Bins |-> RoundDiv(85 * mc_S[k] + 15 * P[k], 100)]
                    ps == [k \in Bins |->
                             RoundDiv(10 * mc_p_speech[k]
                                        + 90 * SpeechSignal(P[k], mc_N_hat[k]), 100)]
                    mb == [r \in 1..mc_window |->
                             IF r = mc_min_index + 1
                             THEN MinimaRow(mc_min_buffer[r], S, ps)
                             ELSE mc_min_buffer[r]]
                    minv(k) == CHOOSE v \in {mb[r][k] : r \in 1..mc_window} :
                                  \A r \in 1..mc_window : v <= mb[r][k]
                IN  /\ mc_S' = S
                    /\ mc_p_speech' = ps
                    /\ mc_min_buffer' = mb
                    /\ mc_min_index' = (mc_min_index + 1) % mc_window
                    /\ mc_N_hat' = [k \in Bins |->
                                      RoundDiv(8 * mc_N_hat[k]
                                                 + 2 * Max(RoundDiv(15 * minv(k), 10),
                                                           eps_floor), 10)]
    /\ UNCHANGED <<mc_window, mc_resets, trackerVars, stftVars, audioVars, pipeVars,
                   peakVars, srpVars, wrapVars, logVars, mergeVars>>

\* MCRA.reset, lines 86-92
McraReset ==
    /\ mc_resets < MaxMcraResets
    /\ mc_resets' = mc_resets + 1
    /\ mc_S' = <<>>
    /\ mc_N_hat' = <<>>
    /\ mc_min_buffer' = <<>>
    /\ mc_min_index' = 0
    /\ mc_p_speech' = <<>>
    /\ UNCHANGED <<mc_window, mc_updates, trackerVars, stftVars, audioVars, pipeVars,
                   peakVars, srpVars, wrapVars, logVars, mergeVars>>

McraNext == (\E spectrum \in McraSpectra : McraUpdate(spectrum)) \/ McraReset

SpecMcra == McraInit /\ [][McraNext]_vars

\* C24: the first update after construction or reset() initialises the
\* state without advancing the ring index; every later update writes only
\* into the ring slot at the current index, and only for bins whose smoothed
\* speech probability is < 0.5, leaving all other slots and bins unchanged,
\* then advances the index by one modulo minima_window; the index always
\* stays in [0, minima_window).
C24_MinimaRing ==
    /\ [](mc_min_index >= 0 /\ mc_min_index < mc_window)
    /\ [][mc_updates' = mc_updates + 1 =>
            IF mc_S = <<>>
            THEN /\ mc_min_index' = mc_min_index
                 /\ mc_S' # <<>>
                 /\ \A r \in 1..mc_window : mc_min_buffer'[r] = mc_S'
            ELSE /\ mc_min_index' = (mc_min_index + 1) % mc_window
                 /\ \A r \in 1..mc_window : \A k \in Bins :
                       mc_min_buffer'[r][k] =
                           IF r = mc_min_index + 1 /\ mc_p_speech'[k] < 500
                           THEN mc_S'[k]
                           ELSE mc_min_buffer[r][k]
      ]_vars

\* the ring index has wrapped around, and the last update wrote one bin of
\* its slot and froze the other
C24_Witness ==
    /\ mc_S # <<>>
    /\ mc_window > 1
    /\ mc_updates > mc_window + 1
    /\ mc_min_index = 0
    /\ \E k, j \in Bins :
          /\ mc_p_speech[k] < 500
          /\ mc_p_speech[j] >= 500
          /\ mc_min_buffer[mc_window][k] = mc_S[k]
          /\ mc_min_buffer[mc_window][j] # mc_S[j]

----------------------------------------------------------------------------
(* pipeline/doa_pipeline.py: _merge_candidates_near_tracks applied to      *)
(* candidate lists as the peak extractor returns them (distinct grid       *)
(* angles on a one-degree grid, strongest first) and to up to              *)
(* MaxMergeTracks active tracks.                                           *)

MergeAzimuths == {0, 10, 20, 45, 350}

MergePowers == {50, 80}

MergeThetas == {0, 30, -10}

MergeGates == {10, 20}

MergeCands ==
    LET one == {[azimuth_deg |-> a, power |-> w, index |-> a] :
                    a \in MergeAzimuths, w \in MergePowers}
        all == UNION {[1..n -> one] : n \in 0..MaxCands}
    IN  {l \in all : \A i, j \in DOMAIN l :
                        i < j => /\ l[i].azimuth_deg # l[j].azimuth_deg
                                 /\ l[i].power >= l[j].power}

MergeTracks ==
    UNION {{[i \in 1..n |-> [id |-> 2 * i, theta_deg |-> th[i]]] :
                th \in [1..n -> MergeThetas]} : n \in 0..MaxMergeTracks}

MergeInit ==
    /\ TrackerIdle /\ StftIdle /\ AudioIdle /\ PipeIdle /\ PeakIdle /\ SrpIdle
    /\ WrapIdle /\ LogIdle /\ McraIdle
    /\ mg_tracks \in MergeTracks
    /\ mg_gate \in MergeGates
    /\ mg_candidates \in MergeCands
    /\ mg_merged = <<>>
    /\ mg_pc = "input"

MergeCall ==
    /\ mg_pc = "input"
    /\ mg_merged' = _merge_candidates_near_tracks([gate_deg |-> mg_gate], mg_tracks,
                                                  mg_candidates)
    /\ mg_pc' = "returned"
    /\ UNCHANGED <<mg_tracks, mg_gate, mg_candidates, trackerVars, stftVars, audioVars,
                   pipeVars, peakVars, srpVars, wrapVars, logVars, mcraVars>>

MergeNext == MergeCall

SpecMerge == MergeInit /\ [][MergeNext]_vars

C26_NoRemovalWhenAssigned ==
    cfg = DefaultConfig =>
        \A i \in DOMAIN removed : removed[i] \notin DOMAIN lastAssoc.assignments

\* a track that had gone five steps with low confidence (its creation and
\* four misses) was assigned its first detection and is kept
C26_Witness ==
    /\ cfg = DefaultConfig
    /\ removed = <<>>
    /\ \E i \in DOMAIN tracks :
          /\ tracks[i].id \in DOMAIN lastAssoc.assignments
          /\ tracks[i].age = 5
          /\ tracks[i].hits = 1

\* C27: for every configuration with death_frames >= 0 and
\* low_confidence_frames_before_removal >= 2, a track promoted during a step
\* is in the track list that step returns, with age = hits = misses = 0: the
\* pruning pass of the creation step does not delete it.
C27_NewTrackSurvivesCreation ==
    (cfg.death_frames >= 0 /\ cfg.low_confidence_frames_before_removal >= 2) =>
        \A i \in DOMAIN promoted :
            /\ promoted[i].id \notin {removed[k] : k \in DOMAIN removed}
            /\ \E j \in DOMAIN tracks :
                  /\ tracks[j].id = promoted[i].id
                  /\ tracks[j].age = 0
                  /\ tracks[j].hits = 0
                  /\ tracks[j].misses = 0

\* a step created a track under a configuration that removes after two
\* low-confidence frames, and the pruning pass counted the first one
C27_Witness ==
    /\ cfg.low_confidence_frames_before_removal = 2
    /\ \E i \in DOMAIN promoted : \E j \in DOMAIN tracks :
          /\ tracks[j].id = promoted[i].id
          /\ tracks[j].low_confidence_frames = 1

\* C28: when STFTProcessor.process_block, and hence DOAPipeline.process_block,
\* raises because the block is not 2-D or its channel count changed, no state
\* is modified: the STFT buffer and fixed channel count, frame_index, the
\* tracker's tracks and pendings and the published snapshot are as before
\* the call.
C28_RaiseLeavesState ==
    [][(lastOp' = "process_block" /\ lastCall' = "raised") =>
          UNCHANGED <<_buffer, _num_mics, frame_index, tracks, pending, next_id,
                      heap, _latest_snapshot, _snapshot_frame_index, mcra,
                      mic_noise_estimates, P_smooth>>]_vars

\* a call raised on a changed channel count after frames had been processed,
\* with samples buffered, a track alive and a snapshot published
C28_Witness ==
    /\ lastOp = "process_block"
    /\ lastCall = "raised"
    /\ lastBlock.ndim = 2
    /\ lastBlock.n_mics # _num_mics
    /\ _buffer > 0
    /\ frame_index > 0
    /\ tracks # <<>>
    /\ _latest_snapshot # <<>>

\* C29: every STFTProcessor.process_block call terminates, and after it
\* returns the processor retains fewer than frame_size buffered samples,
\* whatever the sizes of the blocks fed: each pass of the extraction loop
\* removes hop_size >= 1 samples of the samples accepted, so the passes made
\* are bounded by them and the remainder is below frame_size.
C29_BufferBelowFrameSize ==
    /\ hop_size >= 1
    /\ _buffer < frame_size
    /\ _buffer >= 0 => emitted * hop_size + _buffer = fed

\* a block longer than a frame was added to a remainder, several frames came
\* out in that call and the largest remainder possible is retained
C29_Witness ==
    /\ lastCall = "returned"
    /\ lastBlock # <<>>
    /\ lastBlock.fixed # 0
    /\ lastBlock.n_samples > frame_size
    /\ hop_size < frame_size
    /\ emitted >= 3
    /\ _buffer = frame_size - 1

====
